---- MODULE Spec2Model ----
(***************************************************************************)
(* A model of the DOMP reference implementation (domp/lightning.py,        *)
(* domp/crypto.py, domp/events.py, domp/validation.py, domp/reputation.py, *)
(* domp/client.py, web_api.py).                                            *)
(*                                                                         *)
(* Part I    : LightningEscrowManager, the HTLC escrow state machine.      *)
(* Part II   : event identity, signatures and the validate_event pipeline. *)
(* Part III  : validate_event_chain.                                       *)
(* Part IV   : proof-of-work mining.                                       *)
(* Part V    : ReputationSystem.                                           *)
(* Part VI   : MockLightningNode.                                          *)
(* Part VII  : DOMPClient.                                                 *)
(* Part VIII : TransactionManager.                                         *)
(* Part IX   : DOMPWebState.                                               *)
(***************************************************************************)
EXTENDS Integers, Sequences, FiniteSets, TLC

(***************************************************************************)
(* Bounds of the model.                                                    *)
(***************************************************************************)
\* how many secrets secrets.token_bytes can hand out (bounds create_escrow)
MaxSecrets == 2
\* the clock stops advancing here
MaxNow == 600
\* seconds by which one clock step advances time.time()
TickStep == 600
\* how many tags an event carries at most
MaxTags == 2
\* the nonce limit of the mining loop (10000000 in the code), scaled down
PowNonceLimit == 16
\* the scores add_reputation_score is handed in one run, and the reviews of
\* one pubkey in the runs that vary the reviewers only
MaxScores == 2
MaxReviews == 4
\* the invoices the two Lightning nodes create in one run
MaxInvoices == 2
\* the handlers registered with a client, the relay messages it handles and the
\* seconds its clock advances in one run
MaxHandlers == 3
MaxMessages == 2
MaxClientTime == 1
\* the events the transaction manager is handed in one run
MaxDeliveries == 6
\* the times a relay event is delivered to the web state
MaxRedeliveries == 2

(***************************************************************************)
(* Python values.                                                          *)
(***************************************************************************)
\* Python's None where a string is expected (Optional[str])
None == "<None>"
Range(seq) == {seq[i] : i \in DOMAIN seq}
\* bool(x) of an Optional[str]: None and "" are falsy
Truthy(x) == x \notin {None, ""}

(***************************************************************************)
(*                         PART I : ESCROW                                 *)
(***************************************************************************)
PENDING == "pending"
ACTIVE == "active"
COMPLETED == "completed"
REFUNDED == "refunded"
EXPIRED == "expired"
EscrowState == {PENDING, ACTIVE, COMPLETED, REFUNDED, EXPIRED}

\* seconds per block in HTLCEscrow.__post_init__
BlockSeconds == 600
\* characters of a public key shown by get_escrow_summary
SummaryKeyChars == 16

\* inputs of the escrow operations
TxIds == {"tx1", "tx2"}
Secrets == 1..MaxSecrets
\* public keys are hex strings; here sequences of nibbles longer than 16
BuyerKey == [i \in 1..(SummaryKeyChars + 1) |-> 11]
SellerKey == [i \in 1..(SummaryKeyChars + 1) |-> 5]
PurchaseAmounts == {1000}
CollateralAmounts == {0, 1}
TimeoutBlockChoices == {0, 1}
\* arguments of fund_escrow: buyer_payment_hash: str, the collateral hashes Optional[str]
PaymentHashArgs == {"", "hp"}
BuyerCollateralHashArgs == {None, "hb"}
SellerCollateralHashArgs == {None, "hs"}

\* hashlib.sha256(preimage).digest().hex(): an injective digest in its own domain
SHA256(preimage) == <<"sha256", preimage>>

VARIABLES
    escrows,        \* LightningEscrowManager.escrows: transaction_id -> HTLCEscrow
    escrow_order,   \* insertion order of the keys of escrows (dict iteration order)
    preimages,      \* LightningEscrowManager.preimages: payment_hash -> preimage
    now,            \* int(time.time())
    last,           \* the last call: [op, tx, args, val]
    released,       \* history: transaction ids whose current escrow has released its preimage
    generated       \* history: transaction_id -> the preimage generated when its escrow was created

escrowVars == <<escrows, escrow_order, preimages, now, last, released, generated>>

VARIABLES
    event,          \* the event (event_data / Event) being built, signed and validated
    validation      \* validate_event: [pc, check_signature, failed]

eventVars == <<event, validation>>
VARIABLES chain, chain_result
chainVars == <<chain, chain_result>>
VARIABLES pow
powVars == <<pow>>
VARIABLES
    reputation_scores,      \* ReputationSystem.reputation_scores: pubkey -> list of scores
    aggregated_reputation,  \* ReputationSystem.aggregated_reputation: pubkey -> aggregate
    rep_last                \* the last call on the reputation system and what it gave
repVars == <<reputation_scores, aggregated_reputation, rep_last>>
VARIABLES
    nodes,          \* MockLightningNode objects: node_id -> [balance_sats, invoices, payments]
    node_last,      \* the last call on a node and what it gave
    node_paid       \* history: the invoices pay_invoice completed for, in order
nodeVars == <<nodes, node_last, node_paid>>
VARIABLES
    connections,    \* DOMPClient.connections: the dict's entries in insertion order,
                    \* a deleted entry leaving its slot behind
    sockets,        \* the websocket of each relay: "none", "open", "failing" or "closed"
    sent,           \* history: the messages handed to ws.send, as <<relay, type, payload>>
    event_handlers, \* DOMPClient.event_handlers
    subscriptions,  \* DOMPClient.subscriptions: subscription_id -> relays
    handled,        \* the relay messages handled so far and the handler calls of the last one
    calls,          \* the get_events calls: position, subscription id, collected events
    publish,        \* the publish_event call: position, event, iterator, success_count
    client_time     \* int(time.time()) as the client reads it
clientVars == <<connections, sockets, sent, event_handlers, subscriptions, handled, calls,
                publish, client_time>>
VARIABLES
    transactions,       \* TransactionManager.transactions: product_id -> transaction
    transaction_order,  \* insertion order of the keys of transactions
    deliveries          \* the events the manager's handler has been called with
managerVars == <<transactions, transaction_order, deliveries>>
VARIABLES
    processed_events,       \* DOMPWebState.processed_events: the set of event ids seen
    web_listings,           \* DOMPWebState.listings: the ids of the stored listings
    web_bids,               \* DOMPWebState.bids: bid id -> status
    web_transactions,       \* DOMPWebState.transactions: transaction id -> transaction
    web_transaction_order,  \* insertion order of the keys of DOMPWebState.transactions
    delivered,              \* history: event id -> times handle_nostr_event got it
    dispatched,             \* history: event id -> times a processor was called with it
    web_last                \* the last payment confirmation processed and its transaction
webVars == <<processed_events, web_listings, web_bids, web_transactions,
             web_transaction_order, delivered, dispatched, web_last>>
\* the components outside domp/lightning.py's escrow manager, domp/events.py,
\* domp/validation.py, domp/crypto.py and domp/reputation.py
appVars == <<nodeVars, clientVars, managerVars, webVars>>
coreVars == <<escrowVars, eventVars, chainVars, powVars, repVars>>
\* what the operations of one component leave alone
exceptEscrow == <<eventVars, chainVars, powVars, repVars, appVars>>
exceptEvent == <<escrowVars, chainVars, powVars, repVars, appVars>>
exceptChain == <<escrowVars, eventVars, powVars, repVars, appVars>>
exceptPow == <<escrowVars, eventVars, chainVars, repVars, appVars>>
exceptRep == <<escrowVars, eventVars, chainVars, powVars, appVars>>
exceptNode == <<coreVars, clientVars, managerVars, webVars>>
exceptClient == <<coreVars, nodeVars, managerVars, webVars>>
exceptManager == <<coreVars, nodeVars, clientVars, webVars>>
exceptWeb == <<coreVars, nodeVars, clientVars, managerVars>>
exceptWebAndEscrow == <<eventVars, chainVars, powVars, repVars, nodeVars, clientVars, managerVars>>

\* dataclass HTLCEscrow with __post_init__ (created_at, expires_at defaulted)
HTLCEscrow(transaction_id, buyer_pubkey, seller_pubkey, purchase_amount_sats, buyer_collateral_sats, seller_collateral_sats, payment_hash, payment_preimage, timeout_blocks, time) ==
    [transaction_id |-> transaction_id,
     buyer_pubkey |-> buyer_pubkey,
     seller_pubkey |-> seller_pubkey,
     purchase_amount_sats |-> purchase_amount_sats,
     buyer_collateral_sats |-> buyer_collateral_sats,
     seller_collateral_sats |-> seller_collateral_sats,
     payment_hash |-> payment_hash,
     payment_preimage |-> payment_preimage,
     timeout_blocks |-> timeout_blocks,
     state |-> PENDING,
     created_at |-> time,
     expires_at |-> time + (timeout_blocks * BlockSeconds),
     buyer_payment_hash |-> None,
     buyer_collateral_hash |-> None,
     seller_collateral_hash |-> None]

\* dict assignment d[k] = v
DictSet(d, k, v) == [x \in (DOMAIN d) \cup {k} |-> IF x = k THEN v ELSE d[x]]
\* the key order of a dict after d[k] = v
OrderSet(order, d, k) == IF k \in DOMAIN d THEN order ELSE Append(order, k)

\* what a call returned: Optional[X] is {} or {x}; a bool b is {b}
Call(op, tx, args, val) == [op |-> op, tx |-> tx, args |-> args, val |-> val]
NoArgs == <<>>

EscrowInit ==
    /\ escrows = <<>>
    /\ escrow_order = <<>>
    /\ preimages = <<>>
    /\ now = 0
    /\ last = Call("init", None, NoArgs, {})
    /\ released = {}
    /\ generated = <<>>

\* generate_payment_secret: the secrets secrets.token_bytes(32) can return next
\* (a 32-byte random value never repeats)
FreshSecrets == {p \in Secrets : SHA256(p) \notin DOMAIN preimages}

\* a slip: the digest is taken over a second draw of token_bytes, not the preimage kept
generate_payment_secret_hash_of_other(preimage) == SHA256(preimage + 1)

\* the hash create_escrow stores for a generated preimage
generate_payment_secret_hash(preimage) == SHA256(preimage)

create_escrow(transaction_id, purchase_amount_sats, buyer_collateral_sats, seller_collateral_sats, timeout_blocks) ==
    \E preimage \in FreshSecrets :
        LET payment_hash == generate_payment_secret_hash(preimage)
            escrow == HTLCEscrow(transaction_id, BuyerKey, SellerKey,
                                 purchase_amount_sats, buyer_collateral_sats,
                                 seller_collateral_sats, payment_hash, preimage,
                                 timeout_blocks, now)
        IN  /\ preimages' = DictSet(preimages, payment_hash, preimage)
            /\ escrows' = DictSet(escrows, transaction_id, escrow)
            /\ escrow_order' = OrderSet(escrow_order, escrows, transaction_id)
            /\ last' = Call("create_escrow", transaction_id,
                            <<buyer_collateral_sats, seller_collateral_sats, timeout_blocks>>,
                            {escrow})
            /\ released' = released \ {transaction_id}
            /\ generated' = DictSet(generated, transaction_id, preimage)
            /\ UNCHANGED now

get_escrow(transaction_id) ==
    /\ last' = Call("get_escrow", transaction_id, NoArgs,
                    IF transaction_id \in DOMAIN escrows
                    THEN {escrows[transaction_id]} ELSE {})
    /\ UNCHANGED <<escrows, escrow_order, preimages, now, released, generated>>

\* a slip: recording the purchase payment also pushes the expiry one block on
fund_record_hashes_extending_expiry(escrow, buyer_payment_hash, buyer_collateral_hash, seller_collateral_hash) ==
    [escrow EXCEPT
        !.buyer_payment_hash = buyer_payment_hash,
        !.expires_at = @ + BlockSeconds,
        !.buyer_collateral_hash =
            IF Truthy(buyer_collateral_hash) THEN buyer_collateral_hash ELSE @,
        !.seller_collateral_hash =
            IF Truthy(seller_collateral_hash) THEN seller_collateral_hash ELSE @]

\* fund_escrow, lines 161-166: the hashes recorded on the escrow
fund_record_hashes(escrow, buyer_payment_hash, buyer_collateral_hash, seller_collateral_hash) ==
    [escrow EXCEPT
        !.buyer_payment_hash = buyer_payment_hash,
        !.buyer_collateral_hash =
            IF Truthy(buyer_collateral_hash) THEN buyer_collateral_hash ELSE @,
        !.seller_collateral_hash =
            IF Truthy(seller_collateral_hash) THEN seller_collateral_hash ELSE @]

\* a slip: the hashes recorded on the escrow are tested, not this call's arguments
fund_all_required_recorded(escrow, buyer_payment_hash, buyer_collateral_hash, seller_collateral_hash) ==
    LET recorded == fund_record_hashes(escrow, buyer_payment_hash,
                                       buyer_collateral_hash, seller_collateral_hash)
    IN  /\ Truthy(recorded.buyer_payment_hash)
        /\ (escrow.buyer_collateral_sats > 0 => Truthy(recorded.buyer_collateral_hash))
        /\ (escrow.seller_collateral_sats > 0 => Truthy(recorded.seller_collateral_hash))

\* a slip: a collateral hash recorded by an earlier call stands in for a missing argument
fund_all_required_or_recorded_collateral(escrow, buyer_payment_hash, buyer_collateral_hash, seller_collateral_hash) ==
    /\ Truthy(buyer_payment_hash)
    /\ (escrow.buyer_collateral_sats > 0
            => Truthy(buyer_collateral_hash) \/ Truthy(escrow.buyer_collateral_hash))
    /\ (escrow.seller_collateral_sats > 0
            => Truthy(seller_collateral_hash) \/ Truthy(escrow.seller_collateral_hash))

\* fund_escrow, lines 168-175: all(payment for payment in required_payments)
fund_all_required(escrow, buyer_payment_hash, buyer_collateral_hash, seller_collateral_hash) ==
    /\ Truthy(buyer_payment_hash)
    /\ (escrow.buyer_collateral_sats > 0 => Truthy(buyer_collateral_hash))
    /\ (escrow.seller_collateral_sats > 0 => Truthy(seller_collateral_hash))

fund_escrow(transaction_id, buyer_payment_hash, buyer_collateral_hash, seller_collateral_hash) ==
    LET args == <<buyer_payment_hash, buyer_collateral_hash, seller_collateral_hash>> IN
    /\ IF transaction_id \notin DOMAIN escrows
       THEN /\ last' = Call("fund_escrow", transaction_id, args, {FALSE})
            /\ UNCHANGED escrows
       ELSE LET escrow == escrows[transaction_id]
                recorded == fund_record_hashes(escrow, buyer_payment_hash,
                                               buyer_collateral_hash, seller_collateral_hash)
                funded == fund_all_required(escrow, buyer_payment_hash,
                                            buyer_collateral_hash, seller_collateral_hash)
            IN  /\ escrows' = [escrows EXCEPT ![transaction_id] =
                                  IF funded THEN [recorded EXCEPT !.state = ACTIVE]
                                  ELSE recorded]
                /\ last' = Call("fund_escrow", transaction_id, args, {funded})
    /\ UNCHANGED <<escrow_order, preimages, now, released, generated>>

\* a slip: the state test is dropped from the guard
release_allowed_any_state(transaction_id) == transaction_id \in DOMAIN escrows

\* a slip: the release is refused once the clock has passed expires_at
release_allowed_before_expiry(transaction_id) ==
    /\ transaction_id \in DOMAIN escrows
    /\ escrows[transaction_id].state = ACTIVE
    /\ now <= escrows[transaction_id].expires_at

\* release_payment, line 192: the guard under which the preimage is revealed
release_allowed(transaction_id) ==
    /\ transaction_id \in DOMAIN escrows
    /\ escrows[transaction_id].state = ACTIVE

release_payment(transaction_id) ==
    /\ IF ~release_allowed(transaction_id)
       THEN /\ last' = Call("release_payment", transaction_id, NoArgs, {})
            /\ UNCHANGED <<escrows, released>>
       ELSE /\ escrows' = [escrows EXCEPT ![transaction_id].state = COMPLETED]
            /\ last' = Call("release_payment", transaction_id, NoArgs,
                            {escrows[transaction_id].payment_preimage})
            /\ released' = released \cup {transaction_id}
    /\ UNCHANGED <<escrow_order, preimages, now, generated>>

\* a slip: the refund is reported as processed without looking the escrow up
refund_payment_unchecked(transaction_id) ==
    /\ escrows' = [t \in DOMAIN escrows |->
                      IF t = transaction_id THEN [escrows[t] EXCEPT !.state = REFUNDED]
                      ELSE escrows[t]]
    /\ last' = Call("refund_payment", transaction_id, NoArgs, {TRUE})
    /\ UNCHANGED <<escrow_order, preimages, now, released, generated>>

refund_payment(transaction_id) ==
    /\ IF transaction_id \notin DOMAIN escrows
       THEN /\ last' = Call("refund_payment", transaction_id, NoArgs, {FALSE})
            /\ UNCHANGED escrows
       ELSE /\ escrows' = [escrows EXCEPT ![transaction_id].state = REFUNDED]
            /\ last' = Call("refund_payment", transaction_id, NoArgs, {TRUE})
    /\ UNCHANGED <<escrow_order, preimages, now, released, generated>>

\* a slip: the expiry comparison is inclusive
timed_out_inclusive(escrow, current_time) ==
    /\ escrow.state = ACTIVE
    /\ current_time >= escrow.expires_at

\* check_timeouts, lines 227-228: the escrows the sweep expires at current_time
timed_out(escrow, current_time) ==
    /\ escrow.state = ACTIVE
    /\ current_time > escrow.expires_at

\* the list check_timeouts builds, iterating the dict in insertion order
RECURSIVE expired_transactions(_, _)
expired_transactions(order, current_time) ==
    IF order = <<>> THEN <<>>
    ELSE (IF timed_out(escrows[Head(order)], current_time)
          THEN <<Head(order)>> ELSE <<>>)
         \o expired_transactions(Tail(order), current_time)

check_timeouts ==
    /\ escrows' = [t \in DOMAIN escrows |->
                      IF timed_out(escrows[t], now)
                      THEN [escrows[t] EXCEPT !.state = EXPIRED]
                      ELSE escrows[t]]
    /\ last' = Call("check_timeouts", None, NoArgs, expired_transactions(escrow_order, now))
    /\ UNCHANGED <<escrow_order, preimages, now, released, generated>>

Max(a, b) == IF a >= b THEN a ELSE b

\* get_escrow_summary, lines 248-260: the dictionary it returns
escrow_summary(escrow, time) ==
    [transaction_id |-> escrow.transaction_id,
     state |-> escrow.state,
     buyer |-> SubSeq(escrow.buyer_pubkey, 1, SummaryKeyChars) \o <<".", ".", ".">>,
     seller |-> SubSeq(escrow.seller_pubkey, 1, SummaryKeyChars) \o <<".", ".", ".">>,
     purchase_amount_sats |-> escrow.purchase_amount_sats,
     buyer_collateral_sats |-> escrow.buyer_collateral_sats,
     seller_collateral_sats |-> escrow.seller_collateral_sats,
     payment_hash |-> escrow.payment_hash,
     created_at |-> escrow.created_at,
     expires_at |-> escrow.expires_at,
     time_remaining |-> Max(0, escrow.expires_at - time)]

get_escrow_summary(transaction_id) ==
    /\ last' = Call("get_escrow_summary", transaction_id, NoArgs,
                    IF transaction_id \in DOMAIN escrows
                    THEN {escrow_summary(escrows[transaction_id], now)} ELSE {})
    /\ UNCHANGED <<escrows, escrow_order, preimages, now, released, generated>>

\* the clock advances between calls
Tick ==
    /\ now + TickStep <= MaxNow
    /\ now' = now + TickStep
    /\ last' = Call("tick", None, NoArgs, {})
    /\ UNCHANGED <<escrows, escrow_order, preimages, released, generated>>

CreateEscrow(T, Collateral) ==
    \E t \in T, amount \in PurchaseAmounts, bc \in Collateral,
       sc \in Collateral, tb \in TimeoutBlockChoices :
        create_escrow(t, amount, bc, sc, tb)
GetEscrow(T) == \E t \in T : get_escrow(t)
FundEscrow(T, BuyerHashes, SellerHashes) ==
    \E t \in T, bph \in PaymentHashArgs, bch \in BuyerHashes, sch \in SellerHashes :
        fund_escrow(t, bph, bch, sch)
ReleasePayment(T) == \E t \in T : release_payment(t)
RefundPayment(T) == \E t \in T : refund_payment(t)
CheckTimeouts == check_timeouts
GetEscrowSummary(T) == \E t \in T : get_escrow_summary(t)

\* two transactions without collateral, sharing one manager and one clock
EscrowNext ==
    \/ CreateEscrow(TxIds, {0}) /\ UNCHANGED exceptEscrow
    \/ GetEscrow(TxIds) /\ UNCHANGED exceptEscrow
    \/ FundEscrow(TxIds, {None}, {None}) /\ UNCHANGED exceptEscrow
    \/ ReleasePayment(TxIds) /\ UNCHANGED exceptEscrow
    \/ RefundPayment(TxIds) /\ UNCHANGED exceptEscrow
    \/ CheckTimeouts /\ UNCHANGED exceptEscrow
    \/ GetEscrowSummary(TxIds) /\ UNCHANGED exceptEscrow
    \/ Tick /\ UNCHANGED exceptEscrow

\* one transaction with every combination of collateral and funding hashes
FundingNext ==
    \/ CreateEscrow({"tx1"}, CollateralAmounts) /\ UNCHANGED exceptEscrow
    \/ GetEscrow({"tx1"}) /\ UNCHANGED exceptEscrow
    \/ FundEscrow({"tx1"}, BuyerCollateralHashArgs, SellerCollateralHashArgs) /\ UNCHANGED exceptEscrow
    \/ ReleasePayment({"tx1"}) /\ UNCHANGED exceptEscrow
    \/ RefundPayment({"tx1"}) /\ UNCHANGED exceptEscrow
    \/ CheckTimeouts /\ UNCHANGED exceptEscrow
    \/ GetEscrowSummary({"tx1"}) /\ UNCHANGED exceptEscrow
    \/ Tick /\ UNCHANGED exceptEscrow

(***************************************************************************)
(*                 PART II : EVENTS AND VALIDATION                         *)
(*                                                                         *)
(* A string is the sequence of its character codes, so that len, prefix    *)
(* tests, hex digits and the serialization hashed into an event id are     *)
(* computed as the code computes them.                                     *)
(***************************************************************************)
\* len(event_data["id"]) and len(event_data["pubkey"]) that the structure check asks for
IdHexChars == 64
\* len(event_data["sig"]) that the structure check asks for
SigHexChars == 128
\* len(product_name) that the content check allows
MaxProductNameChars == 100

\* the hex digit of a nibble: '0'..'9', 'a'..'f'
HexChar(n) == IF n < 10 THEN 48 + n ELSE 87 + n
\* c * n for a one-character string c
Repeat(c, n) == [i \in 1..n |-> c]
\* s.startswith(prefix)
StartsWith(s, prefix) == Len(s) >= Len(prefix) /\ SubSeq(s, 1, Len(prefix)) = prefix
\* bytes.fromhex(s) does not raise
IsHex(s) ==
    /\ Len(s) % 2 = 0
    /\ \A i \in DOMAIN s : s[i] \in (48..57) \cup (97..102) \cup (65..70)

\* "anti_spam_proof", "pow", "ln", "ref", "d"
STR_ANTI_SPAM_PROOF == <<97, 110, 116, 105, 95, 115, 112, 97, 109, 95, 112, 114, 111, 111, 102>>
STR_POW == <<112, 111, 119>>
STR_LN == <<108, 110>>
STR_REF == <<114, 101, 102>>
STR_D == <<100>>

\* str(n) of an int
RECURSIVE Dec(_)
Dec(n) ==
    IF n < 0 THEN <<45>> \o Dec(0 - n)
    ELSE IF n < 10 THEN <<48 + n>>
    ELSE Dec(n \div 10) \o <<48 + (n % 10)>>

\* int(s) does not raise ValueError: an optional sign and decimal digits
IsIntText(s) ==
    LET digits == IF Len(s) >= 1 /\ s[1] \in {43, 45} THEN Tail(s) ELSE s
    IN  Len(digits) >= 1 /\ \A i \in DOMAIN digits : digits[i] \in 48..57
RECURSIVE DigitsValue(_)
DigitsValue(digits) ==
    IF digits = <<>> THEN 0
    ELSE 10 * DigitsValue(SubSeq(digits, 1, Len(digits) - 1)) + (digits[Len(digits)] - 48)
\* int(s)
IntOf(s) ==
    IF s[1] = 45 THEN 0 - DigitsValue(Tail(s))
    ELSE IF s[1] = 43 THEN DigitsValue(Tail(s))
    ELSE DigitsValue(s)

\* the content strings of the model: content c is the text of Documents[c];
\* any other c is a text json.loads rejects
BaseDocuments ==
    << [product_name |-> <<116, 101, 115, 116>>, description |-> <<100>>, price_satoshis |-> 100],
       [product_name |-> <<116, 101, 115, 116>>, description |-> <<100>>, price_satoshis |-> 0],
       [product_ref |-> Repeat(97, IdHexChars), bid_amount_satoshis |-> 100,
        buyer_collateral_satoshis |-> 0],
       [product_ref |-> Repeat(97, IdHexChars), bid_amount_satoshis |-> 100,
        buyer_collateral_satoshis |-> 0 - 1] >>
\* the value of a hex digit, and the id whose first two hex digits spell h
HexValue(c) == IF c <= 57 THEN c - 48 ELSE c - 87
IdOfDigest(h) == <<HexChar(h \div 16), HexChar(h % 16)>> \o Repeat(102, IdHexChars - 2)
Digests == 256
\* contents that refer to an earlier event, one per template and referred id:
\* a bid, a bid above 110% of the listed price, a bid acceptance, a payment
\* confirmation, a receipt confirmation, and bids of 110, 32 and 11
ReferringTemplates == 8
ReferringDocument(template, ref) ==
    CASE template = 1 -> [product_ref |-> ref, bid_amount_satoshis |-> 100,
                          buyer_collateral_satoshis |-> 0]
      [] template = 2 -> [product_ref |-> ref, bid_amount_satoshis |-> 111,
                          buyer_collateral_satoshis |-> 0]
      [] template = 3 -> [bid_ref |-> ref, ln_invoice |-> <<108, 110, 98, 99, 49>>]
      [] template = 4 -> [bid_ref |-> ref, payment_proof |-> <<112>>,
                          payment_method |-> "lightning_htlc"]
      [] template = 5 -> [payment_ref |-> ref, status |-> "received"]
      [] template = 6 -> [product_ref |-> ref, bid_amount_satoshis |-> 110,
                          buyer_collateral_satoshis |-> 0]
      [] template = 7 -> [product_ref |-> ref, bid_amount_satoshis |-> 32,
                          buyer_collateral_satoshis |-> 0]
      [] template = 8 -> [product_ref |-> ref, bid_amount_satoshis |-> 11,
                          buyer_collateral_satoshis |-> 0]
\* the content string of a referring document
ReferringContent(template, h) == Len(BaseDocuments) + (template - 1) * Digests + h + 1
\* contents the content checks tell apart: a listing priced below zero, a bid
\* of zero, payments by each method and by one that is not listed, receipts
\* that report damage without and with a dispute_reason, listings priced 29
\* and 10
ContentDocuments ==
    << [product_name |-> <<116, 101, 115, 116>>, description |-> <<100>>,
        price_satoshis |-> 0 - 1],
       [product_ref |-> Repeat(97, IdHexChars), bid_amount_satoshis |-> 0,
        buyer_collateral_satoshis |-> 0],
       [bid_ref |-> Repeat(97, IdHexChars), payment_proof |-> <<112>>,
        payment_method |-> "lightning_keysend"],
       [bid_ref |-> Repeat(97, IdHexChars), payment_proof |-> <<112>>,
        payment_method |-> "onchain"],
       [bid_ref |-> Repeat(97, IdHexChars), payment_proof |-> <<112>>,
        payment_method |-> "cash"],
       [payment_ref |-> Repeat(97, IdHexChars), status |-> "damaged"],
       [payment_ref |-> Repeat(97, IdHexChars), status |-> "damaged",
        dispute_reason |-> <<120>>],
       [payment_ref |-> Repeat(97, IdHexChars), status |-> "not_received"],
       [product_name |-> <<116, 101, 115, 116>>, description |-> <<100>>,
        price_satoshis |-> 29],
       [product_name |-> <<116, 101, 115, 116>>, description |-> <<100>>,
        price_satoshis |-> 10] >>
ContentContent(k) == Len(BaseDocuments) + ReferringTemplates * Digests + k
Documents ==
    BaseDocuments \o
    [c \in 1..(ReferringTemplates * Digests) |->
        ReferringDocument(((c - 1) \div Digests) + 1, IdOfDigest((c - 1) % Digests))] \o
    ContentDocuments
\* json.loads(content) does not raise
IsJson(content) == content \in DOMAIN Documents
json_loads(content) == Documents[content]
\* the characters of a content string
ContentText(content) == <<123>> \o Dec(content) \o <<125>>

\* json.dumps(..., separators=(',', ':')) of a list, given its items' texts
RECURSIVE JsonJoin(_)
JsonJoin(items) ==
    IF items = <<>> THEN <<>>
    ELSE IF Len(items) = 1 THEN items[1]
    ELSE items[1] \o <<44>> \o JsonJoin(Tail(items))
JsonList(items) == <<91>> \o JsonJoin(items) \o <<93>>
JsonString(s) == <<34>> \o s \o <<34>>
JsonTags(tags) ==
    JsonList([i \in DOMAIN tags |->
                 JsonList([j \in DOMAIN tags[i] |-> JsonString(tags[i][j])])])

\* compute_event_id, lines 57-67: [0, pubkey, created_at, kind, tags, content]
serialize_event(event_data) ==
    JsonList(<< <<48>>,
                JsonString(event_data.pubkey),
                Dec(event_data.created_at),
                Dec(event_data.kind),
                JsonTags(event_data.tags),
                JsonString(ContentText(event_data.content)) >>)

\* hashlib.sha256(data).hexdigest(): 64 hex digits computed from every character
\* of data; the first two digits carry the digest, the rest are 'f'
RECURSIVE digest_fold(_, _, _, _)
digest_fold(data, first, final, h) ==
    IF first > final THEN h
    ELSE IF first = final THEN ((h * 31) + data[first]) % Digests
    ELSE LET middle == (first + final) \div 2
             \* the digest of the first half is computed before the second half starts
             left == digest_fold(data, first, middle, h)
         IN  IF left >= 0 THEN digest_fold(data, middle + 1, final, left) ELSE left
sha256_hexdigest(data) ==
    LET h == digest_fold(data, 1, Len(data), 7)
    IN  <<HexChar(h \div 16), HexChar(h % 16)>> \o Repeat(102, IdHexChars - 2)

compute_event_id(event_data) == sha256_hexdigest(serialize_event(event_data))

\* KeyPair: private keys; the public point of a key is (x, parity of y)
Keys == {1, 2}
\* KeyPair.public_key_hex: the x coordinate only, serialize()[1:33].hex()
public_key_hex(key) == Repeat(HexChar(key), IdHexChars)
\* serialize()[0] = 0x03: the public point has an odd y
public_key_odd(key) == key % 2 = 1
PublicPoint(key) == [x |-> public_key_hex(key), odd |-> public_key_odd(key)]
\* private_key.schnorr_sign(message): a signature only that key makes, over that message
schnorr_sign(key, message) == message \o Repeat(HexChar(key), SigHexChars - IdHexChars)
\* pubkey.schnorr_verify(message, signature): the library verifies under the
\* x-only form of the point, for which the y parity plays no part
schnorr_verify(point, message, signature) ==
    \E key \in Keys : PublicPoint(key).x = point.x /\ signature = schnorr_sign(key, message)

\* the loop of Event.sign and verify_event that looks for a pow tag
has_pow_tag(tags) ==
    \E i \in DOMAIN tags :
        Len(tags[i]) >= 2 /\ tags[i][1] = STR_ANTI_SPAM_PROOF /\ tags[i][2] = STR_POW

\* verify_event, lines 106-114: whether the id check is skipped
verify_skips_id(tags) == has_pow_tag(tags)

\* verify_event: any exception gives False
verify_event(event_data) ==
    /\ verify_skips_id(event_data.tags) \/ compute_event_id(event_data) = event_data.id
    /\ IsHex(event_data.pubkey) /\ Len(event_data.pubkey) = IdHexChars
    /\ IsHex(event_data.id) /\ Len(event_data.id) = IdHexChars
    /\ IsHex(event_data.sig)
    /\ schnorr_verify([x |-> event_data.pubkey, odd |-> FALSE], event_data.id, event_data.sig)

RequiredFields == {"id", "pubkey", "created_at", "kind", "tags", "content", "sig"}

\* _validate_event_structure (the fields of the model's events have the right types)
validate_event_structure(event_data) ==
    /\ RequiredFields \subseteq DOMAIN event_data
    /\ Len(event_data.id) = IdHexChars
    /\ Len(event_data.pubkey) = IdHexChars
    /\ Len(event_data.sig) = SigHexChars

\* _get_embedded_schemas: the kinds with a schema
SchemaKinds == {300, 301, 303, 311, 313}
\* _validate_event_schema against the embedded schemas: kind 300 asks for a tag
\* that is an array of at least 2 items starting with "anti_spam_proof"
validate_event_schema(event_data) ==
    /\ event_data.kind \in SchemaKinds
    /\ RequiredFields \subseteq DOMAIN event_data
    /\ event_data.kind = 300 =>
          \E i \in DOMAIN event_data.tags :
              Len(event_data.tags[i]) >= 2 /\ event_data.tags[i][1] = STR_ANTI_SPAM_PROOF

Has(content, fields) == fields \subseteq DOMAIN content

validate_product_listing_content(content) ==
    /\ Has(content, {"product_name", "description", "price_satoshis"})
    /\ ~(content.price_satoshis <= 0)
    /\ ~(Len(content.product_name) > MaxProductNameChars)

validate_bid_submission_content(content) ==
    /\ Has(content, {"product_ref", "bid_amount_satoshis", "buyer_collateral_satoshis"})
    /\ ~(content.bid_amount_satoshis <= 0)
    /\ ~(content.buyer_collateral_satoshis < 0)

\* "lnbc", "lntb", "lnbcrt"
InvoicePrefixes == {<<108, 110, 98, 99>>, <<108, 110, 116, 98>>, <<108, 110, 98, 99, 114, 116>>}
validate_bid_acceptance_content(content) ==
    /\ Has(content, {"bid_ref", "ln_invoice"})
    /\ \E prefix \in InvoicePrefixes : StartsWith(content.ln_invoice, prefix)

validate_payment_confirmation_content(content) ==
    /\ Has(content, {"bid_ref", "payment_proof", "payment_method"})
    /\ content.payment_method \in {"lightning_htlc", "lightning_keysend", "onchain"}

\* a slip: the dispute_reason of a receipt that reports a problem is not asked for
validate_receipt_confirmation_content_any_status(content) ==
    /\ Has(content, {"payment_ref", "status"})
    /\ content.status \in {"received", "partially_received", "not_received", "damaged"}
validate_receipt_confirmation_content(content) ==
    /\ Has(content, {"payment_ref", "status"})
    /\ content.status \in {"received", "partially_received", "not_received", "damaged"}
    /\ ~(content.status # "received" /\ ~Has(content, {"dispute_reason"}))

\* _validate_event_content
validate_event_content(event_data) ==
    /\ IsJson(event_data.content)
    /\ LET content == json_loads(event_data.content)
       IN  CASE event_data.kind = 300 -> validate_product_listing_content(content)
             [] event_data.kind = 301 -> validate_bid_submission_content(content)
             [] event_data.kind = 303 -> validate_bid_acceptance_content(content)
             [] event_data.kind = 311 -> validate_payment_confirmation_content(content)
             [] event_data.kind = 313 -> validate_receipt_confirmation_content(content)
             [] OTHER -> TRUE

\* _validate_pow_proof: the stored id against difficulty // 4 leading '0'
validate_pow_proof_rounding_up(event_data, tag) ==
    /\ ~(Len(tag) < 4)
    /\ IsIntText(tag[4])
    /\ LET required_zeros == (IntOf(tag[4]) + 3) \div 4
       IN  StartsWith(event_data.id, Repeat(48, IF required_zeros > 0 THEN required_zeros ELSE 0))
validate_pow_proof(event_data, tag) ==
    /\ ~(Len(tag) < 4)
    /\ IsIntText(tag[4])
    /\ LET required_zeros == IntOf(tag[4]) \div 4
       IN  StartsWith(event_data.id, Repeat(48, IF required_zeros > 0 THEN required_zeros ELSE 0))

validate_lightning_proof(tag) ==
    /\ ~(Len(tag) < 3)
    /\ Len(tag[3]) = IdHexChars

validate_reference_proof(tag) ==
    /\ ~(Len(tag) < 4)
    /\ Len(tag[3]) = IdHexChars

\* the tags _validate_anti_spam can pick: len(tag) >= 2 and tag[0] == "anti_spam_proof"
ProofTagIndexes(tags) ==
    {i \in DOMAIN tags : Len(tags[i]) >= 2 /\ tags[i][1] = STR_ANTI_SPAM_PROOF}

\* _validate_anti_spam: the first proof tag decides
validate_anti_spam(event_data) ==
    LET found == ProofTagIndexes(event_data.tags) IN
    /\ found # {}
    /\ LET anti_spam_tag == event_data.tags[CHOOSE i \in found : \A j \in found : i <= j]
           proof_type == anti_spam_tag[2]
       IN  CASE proof_type = STR_POW -> validate_pow_proof(event_data, anti_spam_tag)
             [] proof_type = STR_LN -> validate_lightning_proof(anti_spam_tag)
             [] proof_type = STR_REF -> validate_reference_proof(anti_spam_tag)
             [] OTHER -> FALSE

\* _validate_signature
validate_signature(event_data) == verify_event(event_data)

\* dataclass Event: the defaults of id, pubkey, tags and sig
Event(id, created_at, kind, content) ==
    [id |-> id, pubkey |-> <<>>, created_at |-> created_at, kind |-> kind,
     tags |-> <<>>, content |-> content, sig |-> <<>>]

\* inputs: the events a caller starts from, and the tags it appends
\* an id with two leading '0', as a proof-of-work search hands out
MinedId == Repeat(48, 2) \o Repeat(102, IdHexChars - 2)
DraftIds == {<<>>, MinedId}
DraftKinds == {300, 301}
DraftContents == 0..Len(BaseDocuments)
CreatedAtChoices == {1700000000}
\* ["anti_spam_proof","pow","0","0"], ["anti_spam_proof","pow","5","8"],
\* ["anti_spam_proof","pow","5","11"], ["anti_spam_proof","pow","5"],
\* ["anti_spam_proof","pow","5","x"], ["anti_spam_proof","ln",<64 hex>], ["d","x"]
TagChoices ==
    { <<STR_ANTI_SPAM_PROOF, STR_POW, Dec(0), Dec(0)>>,
      <<STR_ANTI_SPAM_PROOF, STR_POW, Dec(5), Dec(8)>>,
      <<STR_ANTI_SPAM_PROOF, STR_POW, Dec(5), Dec(11)>>,
      <<STR_ANTI_SPAM_PROOF, STR_POW, Dec(5)>>,
      <<STR_ANTI_SPAM_PROOF, STR_POW, Dec(5), <<120>>>>,
      <<STR_ANTI_SPAM_PROOF, STR_LN, Repeat(98, IdHexChars)>>,
      <<STR_D, <<120>>>> }
DraftEvents ==
    {Event(id, created_at, kind, content) :
        id \in DraftIds, created_at \in CreatedAtChoices,
        kind \in DraftKinds, content \in DraftContents}

\* inputs: a listing, a bid, a payment or a receipt with each content its check
\* tells apart
ContentDrafts ==
    ({300} \X {1, 2, ContentContent(1)})
        \cup ({301} \X {3, 4, ContentContent(2)})
        \cup ({311} \X {ReferringContent(4, 0), ContentContent(3), ContentContent(4),
                        ContentContent(5)})
        \cup ({313} \X {ReferringContent(5, 0), ContentContent(6), ContentContent(7),
                        ContentContent(8)})
ContentDraftEvents ==
    {Event(<<>>, created_at, draft[1], draft[2]) :
        created_at \in CreatedAtChoices, draft \in ContentDrafts}

\* evaluated: the stages validate_event has called so far, in call order
Idle == [pc |-> "idle", check_signature |-> TRUE, failed |-> None, evaluated |-> <<>>]

EventIdle ==
    /\ event = Event(<<>>, 1700000000, 300, 1)
    /\ validation = Idle

EventInit ==
    /\ event \in DraftEvents
    /\ validation = Idle

ContentEventInit ==
    /\ event \in ContentDraftEvents
    /\ validation = Idle

\* the caller appends a tag (tags.append) before validation starts
AppendTag(tag) ==
    /\ validation.pc = "idle"
    /\ Len(event.tags) < MaxTags
    /\ event' = [event EXCEPT !.tags = Append(@, tag)]
    /\ UNCHANGED validation

\* Event.sign without the has_pow test of line 62: the id is always recomputed
sign_identity_recomputed(ev, key) ==
    LET keyed == [ev EXCEPT !.pubkey = public_key_hex(key)]
    IN  [keyed EXCEPT !.id = compute_event_id(keyed)]
\* Event.sign, lines 52-67: pubkey, and the id unless a pow tag is present
sign_identity(ev, key) ==
    LET keyed == [ev EXCEPT !.pubkey = public_key_hex(key)]
    IN  IF ~has_pow_tag(keyed.tags)
        THEN [keyed EXCEPT !.id = compute_event_id(keyed)]
        ELSE keyed

\* sign_event does not raise: bytes.fromhex(id) gives the 32 bytes schnorr_sign takes
sign_event_defined(event_id) == IsHex(event_id) /\ Len(event_id) = IdHexChars
sign_event_over_pubkey(event_id, key) == schnorr_sign(key, public_key_hex(key))
sign_event(event_id, key) == schnorr_sign(key, event_id)

\* Event.sign; when sign_event raises, pubkey and id are already assigned
Event_sign(ev, key) ==
    LET identified == sign_identity(ev, key)
    IN  IF sign_event_defined(identified.id)
        THEN [identified EXCEPT !.sig = sign_event(identified.id, key)]
        ELSE identified
EventSign(key) ==
    /\ validation.pc = "idle"
    /\ event' = Event_sign(event, key)
    /\ UNCHANGED validation

\* validate_event is called on the event
StartValidation(check_signature) ==
    /\ validation.pc = "idle"
    /\ validation' = [pc |-> "structure", check_signature |-> check_signature,
                      failed |-> None, evaluated |-> <<>>]
    /\ UNCHANGED event

\* the statement of validate_event that follows a stage that did not raise
next_stage_always_signature(name, check_signature) ==
    CASE name = "structure" -> "schema"
      [] name = "schema" -> "content"
      [] name = "content" -> "anti_spam"
      [] name = "anti_spam" -> "signature"
      [] OTHER -> "done"
next_stage(name, check_signature) ==
    CASE name = "structure" -> "schema"
      [] name = "schema" -> "content"
      [] name = "content" -> "anti_spam"
      [] name = "anti_spam" -> IF check_signature THEN "signature" ELSE "done"
      [] OTHER -> "done"

\* what each stage of validate_event decides on an event
stage_passes(name, event_data) ==
    CASE name = "structure" -> validate_event_structure(event_data)
      [] name = "schema" -> validate_event_schema(event_data)
      [] name = "content" -> validate_event_content(event_data)
      [] name = "anti_spam" -> validate_anti_spam(event_data)
      [] name = "signature" -> validate_signature(event_data)

\* the stages a validate_event call is asked to run, in the order of the code
RequestedStages(check_signature) ==
    <<"structure", "schema", "content", "anti_spam">>
        \o (IF check_signature THEN <<"signature">> ELSE <<>>)

\* validate_event as one call: True when no stage raises
validate_event(event_data, check_signature) ==
    \A i \in DOMAIN RequestedStages(check_signature) :
        stage_passes(RequestedStages(check_signature)[i], event_data)

\* one stage of validate_event: on failure ValidationError is raised
Stage(name) ==
    /\ validation.pc = name
    /\ validation' =
          IF stage_passes(name, event)
          THEN [validation EXCEPT !.pc = next_stage(name, validation.check_signature),
                                  !.evaluated = Append(@, name)]
          ELSE [validation EXCEPT !.pc = "done", !.failed = name,
                                  !.evaluated = Append(@, name)]
    /\ UNCHANGED event

StageStructure == Stage("structure")
StageSchema == Stage("schema")
StageContent == Stage("content")
StageAntiSpam == Stage("anti_spam")
StageSignature == Stage("signature")

\* validate_event returned True
Accepted == validation.pc = "done" /\ validation.failed = None

ValidationNext ==
    \/ (\E tag \in TagChoices : AppendTag(tag)) /\ UNCHANGED exceptEvent
    \/ (\E key \in Keys : EventSign(key)) /\ UNCHANGED exceptEvent
    \/ (\E check_signature \in BOOLEAN : StartValidation(check_signature)) /\ UNCHANGED exceptEvent
    \/ StageStructure /\ UNCHANGED exceptEvent
    \/ StageSchema /\ UNCHANGED exceptEvent
    \/ StageContent /\ UNCHANGED exceptEvent
    \/ StageAntiSpam /\ UNCHANGED exceptEvent
    \/ StageSignature /\ UNCHANGED exceptEvent

(***************************************************************************)
(*                  PART III: validate_event_chain                         *)
(***************************************************************************)
expected_sequence == <<300, 301, 303, 311, 313>>
\* the longest list handed to validate_event_chain: one event more than expected
MaxChain == Len(expected_sequence) + 1

\* _validate_event_sequence: kinds != expected_sequence
sequence_matches_at_start(kinds) ==
    /\ Len(kinds) >= Len(expected_sequence)
    /\ SubSeq(kinds, 1, Len(expected_sequence)) = expected_sequence
sequence_matches(kinds) == kinds = expected_sequence

\* _get_reference_field
get_reference_field_before_receipt(kind) ==
    CASE kind = 301 -> "product_ref"
      [] kind \in {303, 311} -> "bid_ref"
      [] OTHER -> None
get_reference_field(kind) ==
    CASE kind = 301 -> "product_ref"
      [] kind \in {303, 311} -> "bid_ref"
      [] kind = 313 -> "payment_ref"
      [] OTHER -> None

\* _validate_event_sequence
validate_event_sequence(events) ==
    /\ sequence_matches([i \in DOMAIN events |-> events[i].kind])
    /\ \A i \in 2..Len(events) :
          LET content == json_loads(events[i].content)
              ref_field == get_reference_field(events[i].kind)
          IN  (ref_field # None /\ ref_field \in DOMAIN content)
                  => content[ref_field] = events[i - 1].id

\* Python float: a binary floating-point number m * 2^e whose significand m
\* has FloatMantissaBits bits (53 in a double; amounts scale with it), every
\* result rounded to the nearest such number, ties to the even significand
FloatMantissaBits == 8
FloatExponents == (0 - FloatMantissaBits)..FloatMantissaBits
RECURSIVE Pow2(_)
Pow2(n) == IF n = 0 THEN 1 ELSE 2 * Pow2(n - 1)
\* num / den / 2^e as a fraction of integers
float_scaled(num, den, e) ==
    IF e >= 0 THEN <<num, den * Pow2(e)>> ELSE <<num * Pow2(0 - e), den>>
float_exponent(num, den) ==
    CHOOSE e \in FloatExponents :
        LET scaled == float_scaled(num, den, e)
        IN  /\ Pow2(FloatMantissaBits - 1) * scaled[2] <= scaled[1]
            /\ scaled[1] < Pow2(FloatMantissaBits) * scaled[2]
round_half_even(num, den) ==
    LET q == num \div den
        r == num % den
    IN  IF 2 * r > den \/ (2 * r = den /\ q % 2 = 1) THEN q + 1 ELSE q
\* the float nearest to num / den, for num, den > 0
float_round(num, den) ==
    LET e == float_exponent(num, den)
        scaled == float_scaled(num, den, e)
    IN  [m |-> round_half_even(scaled[1], scaled[2]), e |-> e]
\* the literal 1.1
float_1_1 == float_round(11, 10)
\* int * float
int_times_float(n, f) ==
    IF f.e >= 0 THEN float_round(n * f.m * Pow2(f.e), 1)
    ELSE float_round(n * f.m, Pow2(0 - f.e))
\* int > float: Python compares the exact values
int_greater_than_float(n, f) ==
    IF f.e >= 0 THEN n > f.m * Pow2(f.e) ELSE n * Pow2(0 - f.e) > f.m

\* _validate_state_transitions: bid_amount > listing_price * 1.1 raises
validate_state_transitions(events) ==
    LET listing_content == json_loads(events[1].content)
        bid_content == json_loads(events[2].content)
        listing_price == listing_content.price_satoshis
        bid_amount == bid_content.bid_amount_satoshis
    IN  ~int_greater_than_float(bid_amount, int_times_float(listing_price, float_1_1))

\* validate_event_chain: True, or ValidationError raised
validate_event_chain(events) ==
    /\ events # <<>>
    /\ \A i \in DOMAIN events : validate_event(events[i], TRUE)
    /\ validate_event_sequence(events)
    /\ validate_state_transitions(events)

\* the digest an id of compute_event_id spells in its first two hex digits
DigestOfId(id) == HexValue(id[1]) * 16 + HexValue(id[2])

\* inputs: the event a party publishes after the events of the chain so far;
\* its content refers to the last event's id (ref "previous"), to the first
\* event's id ("first") or to another id; listing is the content of a listing
\* and bid the template of a bid
chain_content(kind, events, ref, listing, bid) ==
    LET previous == IF events = <<>> THEN 0 ELSE DigestOfId(events[Len(events)].id)
        first == IF events = <<>> THEN 0 ELSE DigestOfId(events[1].id)
        h == CASE ref = "previous" -> previous
               [] ref = "first" -> first
               [] OTHER -> (previous + 1) % Digests
    IN  CASE kind = 300 -> listing
          [] kind = 301 -> ReferringContent(bid, h)
          [] kind = 303 -> ReferringContent(3, h)
          [] kind = 311 -> ReferringContent(4, h)
          [] kind = 313 -> ReferringContent(5, h)
chain_event(kind, events, ref, listing, bid, key) ==
    Event_sign([Event(<<>>, 1700000000 + Len(events), kind,
                      chain_content(kind, events, ref, listing, bid))
                   EXCEPT !.tags = <<<<STR_ANTI_SPAM_PROOF, STR_LN, Repeat(98, IdHexChars)>>>>],
               key)

ChainInit ==
    /\ chain = <<>>
    /\ chain_result = "idle"

\* an event is published and joins the list handed to validate_event_chain
PublishToChain(kind, ref, listing, bid, key) ==
    /\ chain_result = "idle"
    /\ Len(chain) < MaxChain
    /\ chain' = Append(chain, chain_event(kind, chain, ref, listing, bid, key))
    /\ UNCHANGED chain_result

\* validate_event_chain(chain)
ValidateEventChain ==
    /\ chain_result = "idle"
    /\ chain_result' = IF validate_event_chain(chain) THEN "accepted" ELSE "rejected"
    /\ UNCHANGED chain

\* chains of any kinds, every reference right, signed by a key that verifies
ChainKindsNext ==
    \/ (\E kind \in Range(expected_sequence) : PublishToChain(kind, "previous", 1, 1, 2))
           /\ UNCHANGED exceptChain
    \/ ValidateEventChain /\ UNCHANGED exceptChain

\* chains of the expected kinds, with right and wrong references, a bid of the
\* listed price or of more than 110% of it
ChainRefsNext ==
    \/ (\E ref \in {"previous", "other"}, bid \in {1, 2}, key \in Keys :
            /\ Len(chain) < Len(expected_sequence)
            /\ PublishToChain(expected_sequence[Len(chain) + 1], ref, 1, bid, key))
           /\ UNCHANGED exceptChain
    \/ ValidateEventChain /\ UNCHANGED exceptChain

\* listings priced 100, 29 and 10, bids of 100, 111, 110, 32 and 11
ListingChoices == {1, ContentContent(9), ContentContent(10)}
BidChoices == {1, 2, 6, 7, 8}
\* chains of the expected kinds with right references, of each price and bid
ChainBidsNext ==
    \/ (\E listing \in ListingChoices, bid \in BidChoices :
            /\ Len(chain) < Len(expected_sequence)
            /\ PublishToChain(expected_sequence[Len(chain) + 1], "previous", listing, bid, 2))
           /\ UNCHANGED exceptChain
    \/ ValidateEventChain /\ UNCHANGED exceptChain

(***************************************************************************)
(*                  PART IV: proof-of-work mining                          *)
(***************************************************************************)
\* target_prefix = '0' * (difficulty // 4)
target_prefix_one_short(difficulty) ==
    LET zeros == (difficulty \div 4) - 1 IN Repeat(48, IF zeros > 0 THEN zeros ELSE 0)
target_prefix(difficulty) ==
    LET zeros == difficulty \div 4 IN Repeat(48, IF zeros > 0 THEN zeros ELSE 0)

\* ["anti_spam_proof", "pow", str(nonce), str(difficulty)]
pow_tag(nonce, difficulty) == <<STR_ANTI_SPAM_PROOF, STR_POW, Dec(nonce), Dec(difficulty)>>
\* event_copy of one iteration of the loop
pow_event_copy(event_data, nonce, difficulty) ==
    [event_data EXCEPT !.tags = @ \o <<pow_tag(nonce, difficulty)>>]

\* inputs of generate_pow_nonce / generate_pow_event
MiningPubkeys == {<<>>, public_key_hex(2)}
MiningEvents ==
    {[Event(<<>>, 1700000000, kind, content) EXCEPT !.pubkey = pubkey] :
        kind \in DraftKinds, content \in DraftContents, pubkey \in MiningPubkeys}
MiningDifficulties == {0, 4, 6, 8, 12}
\* ids handed to _validate_pow_proof besides the mined one: "ff..." and "0ff..."
ForgedIds == {IdOfDigest(255), IdOfDigest(15)}

\* tried: the nonces whose id the loop has computed, in order;
\* checked: the outcomes of _validate_pow_proof on the mined event
PowIdle ==
    [pc |-> "idle", event_data |-> Event(<<>>, 1700000000, 300, 1), difficulty |-> 0,
     nonce |-> 0, tried |-> <<>>, event_id |-> <<>>,
     event_copy |-> Event(<<>>, 1700000000, 300, 1), checked |-> {}]
PowInit == pow = PowIdle

\* generate_pow_nonce(event_data, difficulty) is called: nonce = 0
StartMining(event_data, difficulty) ==
    /\ pow.pc = "idle"
    /\ pow' = [PowIdle EXCEPT !.pc = "loop", !.event_data = event_data,
                              !.event_copy = event_data, !.difficulty = difficulty]

\* one iteration of the while loop: return, or nonce += 1 and the limit test
MineAttempt ==
    /\ pow.pc = "loop"
    /\ LET event_copy == pow_event_copy(pow.event_data, pow.nonce, pow.difficulty)
           event_id == compute_event_id(event_copy)
       IN  pow' = IF StartsWith(event_id, target_prefix(pow.difficulty))
                  THEN [pow EXCEPT !.pc = "returned", !.tried = Append(@, pow.nonce),
                                   !.event_id = event_id, !.event_copy = event_copy]
                  ELSE [pow EXCEPT !.nonce = @ + 1, !.tried = Append(@, pow.nonce),
                                   !.pc = IF pow.nonce + 1 > PowNonceLimit
                                          THEN "raised" ELSE "loop"]

\* _validate_pow_proof on the returned event carrying id, with its pow tag
CheckMinedProof(id) ==
    /\ pow.pc = "returned"
    /\ LET mined == [pow.event_copy EXCEPT !.id = id]
           tag == mined.tags[Len(mined.tags)]
       IN  pow' = [pow EXCEPT !.checked =
                      @ \cup {[id |-> id, passes |-> validate_pow_proof(mined, tag)]}]

MiningNext ==
    \/ (\E event_data \in MiningEvents, difficulty \in MiningDifficulties :
            StartMining(event_data, difficulty)) /\ UNCHANGED exceptPow
    \/ MineAttempt /\ UNCHANGED exceptPow
    \/ (\E id \in {pow.event_id} \cup ForgedIds : CheckMinedProof(id)) /\ UNCHANGED exceptPow

(***************************************************************************)
(*                    PART V: ReputationSystem                             *)
(*                                                                         *)
(* A float is the fraction num / den it stands for, kept in lowest terms;  *)
(* the two places where a double leaves the fractions, the underflow and   *)
(* the overflow of decay_factor ** days_old, are modelled as they happen.  *)
(* A timestamp is kept as its whole day (86400 seconds).                   *)
(***************************************************************************)
RECURSIVE Gcd(_, _)
Gcd(a, b) == IF b = 0 THEN a ELSE Gcd(b, a % b)
Abs(n) == IF n < 0 THEN 0 - n ELSE n
\* num / den for den > 0
Rat(num, den) ==
    LET g == Gcd(Abs(num), den)
    IN  [num |-> IF num < 0 THEN 0 - (Abs(num) \div g) ELSE num \div g, den |-> den \div g]
RatInt(n) == [num |-> n, den |-> 1]
RatAdd(a, b) ==
    LET g == Gcd(a.den, b.den)
    IN  Rat(a.num * (b.den \div g) + b.num * (a.den \div g), (a.den \div g) * b.den)
RatSub(a, b) == RatAdd(a, [num |-> 0 - b.num, den |-> b.den])
RatMul(a, b) ==
    LET g == Gcd(Abs(a.num), b.den)
        h == Gcd(Abs(b.num), a.den)
    IN  Rat((a.num \div g) * (b.num \div h), (a.den \div h) * (b.den \div g))
\* a / b for b > 0
RatDiv(a, b) == RatMul(a, [num |-> b.den, den |-> b.num])
RatLess(a, b) == a.num * b.den < b.num * a.den
RatMin(a, b) == IF RatLess(b, a) THEN b ELSE a
RatMax(a, b) == IF RatLess(a, b) THEN b ELSE a
RECURSIVE IntPow(_, _)
IntPow(base, n) == IF n = 0 THEN 1 ELSE base * IntPow(base, n - 1)

\* int(time.time()) // 86400 during the calls of the model, and 24 * 3600
Today == 19675
DaySeconds == 86400
\* ReputationSystem.__init__: decay_factor = 0.95, volume_weight_factor = 0.1,
\* verified_purchase_bonus = 0.2
decay_factor == Rat(95, 100)
volume_weight_factor == Rat(1, 10)
verified_purchase_bonus == Rat(2, 10)
\* 0.95 ** days_old as a double: 0.0 from 14527 days on, OverflowError
\* (34, 'Numerical result out of range') from -13838 days down
DecayUnderflowDays == 14527
DecayOverflowDays == 13838
decay_overflows(days_old) == days_old <= 0 - DecayOverflowDays
decay_power(days_old) ==
    IF days_old >= DecayUnderflowDays THEN RatInt(0)
    ELSE IF days_old >= 0
         THEN Rat(IntPow(decay_factor.num, days_old), IntPow(decay_factor.den, days_old))
         ELSE Rat(IntPow(decay_factor.den, 0 - days_old), IntPow(decay_factor.num, 0 - days_old))

\* dataclass ReputationScore with __post_init__; an Optional[int] is {} or {n}
ReputationScore(transaction_id, reviewer_pubkey, reviewed_pubkey, overall_rating, item_quality, shipping_speed, communication, payment_reliability, transaction_amount_sats, review_timestamp, verified_purchase, escrow_completed) ==
    [transaction_id |-> transaction_id,
     reviewer_pubkey |-> reviewer_pubkey,
     reviewed_pubkey |-> reviewed_pubkey,
     overall_rating |-> overall_rating,
     item_quality |-> item_quality,
     shipping_speed |-> shipping_speed,
     communication |-> communication,
     payment_reliability |-> payment_reliability,
     transaction_amount_sats |-> transaction_amount_sats,
     review_timestamp |-> IF review_timestamp = 0 THEN Today ELSE review_timestamp,
     verified_purchase |-> verified_purchase,
     escrow_completed |-> escrow_completed]

\* _validate_score
validate_score_overall_only(score) == 1 <= score.overall_rating /\ score.overall_rating <= 5
validate_score(score) ==
    /\ 1 <= score.overall_rating /\ score.overall_rating <= 5
    /\ \A rating \in {score.item_quality, score.shipping_speed,
                      score.communication, score.payment_reliability} :
          \A r \in rating : 1 <= r /\ r <= 5
    /\ ~(score.transaction_amount_sats < 0)

RECURSIVE SumOver(_, _)
\* sum(f[i] for i in 1..n)
SumOver(f, n) == IF n = 0 THEN 0 ELSE f[n] + SumOver(f, n - 1)
RECURSIVE RatSumOver(_, _)
RatSumOver(f, n) == IF n = 0 THEN RatInt(0) ELSE RatAdd(RatSumOver(f, n - 1), f[n])
Count(scores, test(_)) == Cardinality({i \in DOMAIN scores : test(scores[i])})
MinOf(S) == CHOOSE x \in S : \A y \in S : x <= y
MaxOf(S) == CHOOSE x \in S : \A y \in S : y <= x

\* _calculate_weighted_average, lines 205-221: the weight of one score
days_old(score) == Today - score.review_timestamp
score_weight_without_decay(score) ==
    RatMul(RatAdd(RatInt(1), RatMul(volume_weight_factor,
                                    Rat(score.transaction_amount_sats, 1000000))),
           RatAdd(RatInt(1),
                  RatAdd(IF score.verified_purchase THEN verified_purchase_bonus ELSE RatInt(0),
                         IF score.escrow_completed THEN verified_purchase_bonus ELSE RatInt(0))))
score_weight(score) == RatMul(decay_power(days_old(score)), score_weight_without_decay(score))
\* _calculate_weighted_average raises OverflowError
weighted_average_raises(scores) ==
    \E i \in DOMAIN scores : decay_overflows(days_old(scores[i]))
\* _calculate_weighted_average(scores, lambda s: s.overall_rating)
calculate_weighted_average(scores) ==
    LET weights == [i \in DOMAIN scores |-> score_weight(scores[i])]
        total_weight == RatSumOver(weights, Len(scores))
        weighted_sum ==
            RatSumOver([i \in DOMAIN scores |->
                           RatMul(RatInt(scores[i].overall_rating), weights[i])],
                       Len(scores))
    IN  IF total_weight.num > 0 THEN RatDiv(weighted_sum, total_weight) ELSE RatInt(0)

\* _calculate_optional_average
calculate_optional_average(scores, field) ==
    LET present == {i \in DOMAIN scores : scores[i][field] # {}}
        values == [i \in DOMAIN scores |->
                      IF i \in present THEN CHOOSE v \in scores[i][field] : TRUE ELSE 0]
    IN  IF present # {} THEN Rat(SumOver(values, Len(scores)), Cardinality(present))
        ELSE RatInt(0)

RECURSIVE gini_cumsum(_, _, _)
\* sum((i + 1) * count for i, count in enumerate(sorted counts))
gini_cumsum(counts, remaining, rank) ==
    IF remaining = {} THEN 0
    ELSE LET least == CHOOSE r \in remaining : \A q \in remaining : counts[r] <= counts[q]
         IN  rank * counts[least] + gini_cumsum(counts, remaining \ {least}, rank + 1)
\* a slip: the offset (n + 1) / n is not subtracted
calculate_gini_coefficient_without_offset(reviewers) ==
    IF reviewers = <<>> THEN RatInt(0)
    ELSE LET counts == [r \in Range(reviewers) |->
                           Cardinality({i \in DOMAIN reviewers : reviewers[i] = r})]
             n == Cardinality(DOMAIN counts)
             cumsum == gini_cumsum(counts, DOMAIN counts, 1)
         IN  Rat(2 * cumsum, n * Len(reviewers))
\* _calculate_gini_coefficient
calculate_gini_coefficient(reviewers) ==
    IF reviewers = <<>> THEN RatInt(0)
    ELSE LET counts == [r \in Range(reviewers) |->
                           Cardinality({i \in DOMAIN reviewers : reviewers[i] = r})]
             n == Cardinality(DOMAIN counts)
             cumsum == gini_cumsum(counts, DOMAIN counts, 1)
         IN  RatSub(Rat(2 * cumsum, n * Len(reviewers)), Rat(n + 1, n))

\* _update_aggregated_reputation, lines 151-192: the aggregate of a history
AggregatedReputation(pubkey, scores) ==
    LET timestamps == {scores[i].review_timestamp : i \in DOMAIN scores}
        thirty_days_ago == Today - 30
        reviewers == [i \in DOMAIN scores |-> scores[i].reviewer_pubkey]
        verified(score) == score.verified_purchase
        completed(score) == score.escrow_completed
        recent(score) == score.review_timestamp > thirty_days_ago
    IN  [pubkey |-> pubkey,
         overall_score |-> calculate_weighted_average(scores),
         total_transactions |-> Len(scores),
         total_volume_sats |->
             SumOver([i \in DOMAIN scores |-> scores[i].transaction_amount_sats], Len(scores)),
         avg_item_quality |-> calculate_optional_average(scores, "item_quality"),
         avg_shipping_speed |-> calculate_optional_average(scores, "shipping_speed"),
         avg_communication |-> calculate_optional_average(scores, "communication"),
         avg_payment_reliability |-> calculate_optional_average(scores, "payment_reliability"),
         verified_purchases |-> Count(scores, verified),
         completed_escrows |-> Count(scores, completed),
         dispute_rate |-> RatInt(0),
         first_transaction |-> MinOf(timestamps),
         last_transaction |-> MaxOf(timestamps),
         transactions_last_30d |-> Count(scores, recent),
         unique_reviewers |-> Cardinality(Range(reviewers)),
         review_concentration |-> calculate_gini_coefficient(reviewers)]

\* a ReputationSystem: its two dicts, and the exception its last call raised
NewReputationSystem == [scores |-> <<>>, aggregated |-> <<>>, raised |-> None]
\* defaultdict(list)[key]
HistoryOf(scores, pubkey) == IF pubkey \in DOMAIN scores THEN scores[pubkey] ELSE <<>>

\* add_reputation_score as a function of the system: ValueError before the
\* append, OverflowError after it and before the aggregate is stored
system_add(system, score) ==
    LET pubkey == score.reviewed_pubkey
        history == Append(HistoryOf(system.scores, pubkey), score)
    IN  IF ~validate_score(score) THEN [system EXCEPT !.raised = "ValueError"]
        ELSE IF weighted_average_raises(history)
             THEN [system EXCEPT !.scores = DictSet(@, pubkey, history),
                                 !.raised = "OverflowError"]
             ELSE [scores |-> DictSet(system.scores, pubkey, history),
                   aggregated |-> DictSet(system.aggregated, pubkey,
                                          AggregatedReputation(pubkey, history)),
                   raised |-> None]

\* get_trust_score
trust_score_uncapped(rep) ==
    LET base_score == RatDiv(rep.overall_score, RatInt(5))
        volume_factor == RatMin(RatInt(1), Rat(rep.total_volume_sats, 100000000))
        verification_rate ==
            IF rep.total_transactions > 0
            THEN Rat(rep.verified_purchases + rep.completed_escrows, 2 * rep.total_transactions)
            ELSE RatInt(0)
        diversity_factor == RatSub(RatInt(1), rep.review_concentration)
        days_since_last == Today - rep.last_transaction
        recency_factor ==
            IF rep.last_transaction > 0
            THEN RatMax(Rat(1, 10), RatSub(RatInt(1), Rat(days_since_last, 365)))
            ELSE Rat(1, 10)
    IN  RatAdd(RatAdd(RatAdd(RatAdd(RatMul(base_score, Rat(4, 10)),
                                    RatMul(volume_factor, Rat(2, 10))),
                             RatMul(verification_rate, Rat(2, 10))),
                      RatMul(diversity_factor, Rat(1, 10))),
               RatMul(recency_factor, Rat(1, 10)))
trust_score(rep) == RatMin(RatInt(1), trust_score_uncapped(rep))
get_trust_score_of(aggregated, pubkey) ==
    IF pubkey \notin DOMAIN aggregated THEN RatInt(0) ELSE trust_score(aggregated[pubkey])

RepCall(op, arg, val) == [op |-> op, arg |-> arg, val |-> val]
RepInit ==
    /\ reputation_scores = <<>>
    /\ aggregated_reputation = <<>>
    /\ rep_last = RepCall("init", None, None)

\* add_reputation_score(score)
add_reputation_score(score) ==
    LET after == system_add([scores |-> reputation_scores,
                             aggregated |-> aggregated_reputation, raised |-> None], score)
    IN  /\ reputation_scores' = after.scores
        /\ aggregated_reputation' = after.aggregated
        /\ rep_last' = RepCall("add_reputation_score", score, after.raised)

\* get_trust_score(pubkey)
get_trust_score(pubkey) ==
    /\ rep_last' = RepCall("get_trust_score", pubkey,
                           get_trust_score_of(aggregated_reputation, pubkey))
    /\ UNCHANGED <<reputation_scores, aggregated_reputation>>

\* dict.get(key, default)
DictGet(dict, key, default) == IF key \in DOMAIN dict THEN dict[key] ELSE default

\* create_reputation_from_receipt_confirmation(receipt_event, transaction_context)
create_reputation_from_receipt_confirmation(receipt_event, transaction_context) ==
    LET content == json_loads(receipt_event.content)
    IN  ReputationScore(DictGet(content, "payment_ref", "unknown"),
                        receipt_event.pubkey,
                        transaction_context.seller_pubkey,
                        DictGet(content, "rating", 5),
                        {IF DictGet(content, "item_condition", None) = "as_described"
                         THEN 5 ELSE 3},
                        {DictGet(content, "shipping_rating", 5)},
                        {DictGet(content, "communication_rating", 5)},
                        {5},
                        transaction_context.amount_sats,
                        receipt_event.created_at \div DaySeconds,
                        TRUE, TRUE)

\* the loop body of aggregate_marketplace_reputation: a listing is recorded under
\* its own id, a receipt is scored when its payment_ref is a recorded id
marketplace_step(state, event_data) ==
    LET content == json_loads(event_data.content)
    IN  CASE event_data.kind = 300 ->
                 [state EXCEPT !.transactions =
                     DictSet(@, event_data.id,
                             [seller_pubkey |-> event_data.pubkey,
                              amount_sats |-> DictGet(content, "price_satoshis", 0)])]
          [] event_data.kind = 313 ->
                 IF DictGet(content, "payment_ref", None) \in DOMAIN state.transactions
                 THEN [state EXCEPT !.system =
                          system_add(@, create_reputation_from_receipt_confirmation(
                                            event_data,
                                            state.transactions[content.payment_ref]))]
                 ELSE state
          [] OTHER -> state
RECURSIVE marketplace_loop(_, _, _)
marketplace_loop(state, events, i) ==
    IF i > Len(events) \/ state.system.raised # None THEN state
    ELSE marketplace_loop(marketplace_step(state, events[i]), events, i + 1)
\* aggregate_marketplace_reputation(events): the exception raised, if any, and
\* reputation_system.aggregated_reputation
aggregate_marketplace_reputation(events) ==
    LET final == marketplace_loop([transactions |-> <<>>, system |-> NewReputationSystem],
                                  events, 1)
    IN  [raised |-> final.system.raised, aggregated |-> final.system.aggregated]

\* aggregate_marketplace_reputation(chain)
AggregateMarketplaceReputation ==
    /\ rep_last' = RepCall("aggregate_marketplace_reputation", chain,
                           aggregate_marketplace_reputation(chain))
    /\ UNCHANGED <<reputation_scores, aggregated_reputation>>

\* the scores held in all histories
StoredScores ==
    Cardinality(UNION {{k} \X DOMAIN reputation_scores[k] : k \in DOMAIN reputation_scores})

\* inputs: the scores a caller hands to add_reputation_score
NoOptionals == <<{}, {}, {}, {}>>
Scores(Reviewed, Reviewers, Ratings, Optionals, Amounts, Timestamps, Flags) ==
    {ReputationScore("t", reviewer, reviewed, rating, optional[1], optional[2],
                     optional[3], optional[4], amount, timestamp, flags[1], flags[2]) :
        reviewed \in Reviewed, reviewer \in Reviewers, rating \in Ratings,
        optional \in Optionals, amount \in Amounts, timestamp \in Timestamps,
        flags \in Flags}
AddReputationScore(Choices, limit) ==
    /\ StoredScores < limit
    /\ \E score \in Choices : add_reputation_score(score)
GetTrustScore(Pubkeys) == \E pubkey \in Pubkeys : get_trust_score(pubkey)

\* ratings and amounts inside and outside their ranges, for two reviewed pubkeys
OptionalChoices ==
    {NoOptionals, <<{3}, {1}, {5}, {3}>>, <<{0}, {}, {}, {}>>, <<{}, {6}, {}, {}>>,
     <<{}, {}, {0}, {}>>, <<{}, {}, {}, {6}>>}
ValidationScores ==
    Scores({"s1", "s2"}, {"b1"}, {0, 1, 5, 6}, OptionalChoices, {0 - 1, 0}, {0},
           {<<FALSE, FALSE>>})
RepValidationNext ==
    \/ AddReputationScore(ValidationScores, MaxScores) /\ UNCHANGED exceptRep
    \/ GetTrustScore({"s1", "s2"}) /\ UNCHANGED exceptRep

\* amounts, verification flags and reviewers of every mix, for two reviewed
\* pubkeys; a review is dated now or far in the future
FarFuture == Today + DecayOverflowDays
CountsScores ==
    Scores({"s1", "s2"}, {"b1", "b2"}, {5}, {NoOptionals}, {0, 100000000}, {0, FarFuture},
           {<<FALSE, FALSE>>, <<TRUE, FALSE>>, <<TRUE, TRUE>>})
RepCountsNext ==
    \/ AddReputationScore(CountsScores, MaxScores) /\ UNCHANGED exceptRep
    \/ GetTrustScore({"s1", "s2"}) /\ UNCHANGED exceptRep

\* ratings, amounts and reviewers of every mix for one reviewed pubkey, each
\* review of a verified purchase with its escrow completed; a review is dated
\* now, the day after the epoch, or tomorrow
WeightedScores ==
    Scores({"s1"}, {"b1", "b2"}, {1, 5}, {NoOptionals}, {0, 100000000}, {0, 1, Today + 1},
           {<<TRUE, TRUE>>})
RepScoresNext ==
    \/ AddReputationScore(WeightedScores, MaxScores) /\ UNCHANGED exceptRep
    \/ GetTrustScore({"s1", "s2"}) /\ UNCHANGED exceptRep

\* reviews of one pubkey by up to three reviewers
ReviewerScores ==
    Scores({"s1"}, {"b1", "b2", "b3"}, {5}, {NoOptionals}, {0}, {0}, {<<FALSE, FALSE>>})
RepReviewersNext ==
    \/ AddReputationScore(ReviewerScores, MaxReviews) /\ UNCHANGED exceptRep
    \/ GetTrustScore({"s1"}) /\ UNCHANGED exceptRep

\* chains of the expected kinds by a seller and a buyer, each reference to the
\* previous event or to the listing; the chain is validated and aggregated
ChainReputationNext ==
    \/ (\E ref \in {"previous", "first"}, listing \in ListingChoices :
            /\ Len(chain) < Len(expected_sequence)
            /\ LET kind == expected_sequence[Len(chain) + 1]
               IN  PublishToChain(kind, ref, listing, 1, IF kind \in {300, 303} THEN 2 ELSE 1))
           /\ UNCHANGED exceptChain
    \/ ValidateEventChain /\ UNCHANGED exceptChain
    \/ AggregateMarketplaceReputation /\ UNCHANGED exceptRep

(***************************************************************************)
(*                PART VI - MockLightningNode (domp/lightning.py)          *)
(*                                                                         *)
(* An invoice string is the pair of its amount and its random token; the   *)
(* payment hash of an invoice made without one is a random value too.      *)
(***************************************************************************)
NodeIds == {"a", "b"}
\* MockLightningNode.__init__: self.balance_sats
StartBalance == 1000000000
InvoiceAmounts == {0 - 1, 1000000000}

\* secrets.token_hex(20) / secrets.token_bytes(32): a value no earlier call returned
invoices_made == UNION {DOMAIN nodes[n].invoices : n \in NodeIds}
FreshToken == Cardinality(invoices_made) + 1
UnknownInvoice == <<0, 0>>

MockLightningNode(node_id) ==
    [node_id |-> node_id, balance_sats |-> StartBalance, invoices |-> <<>>, payments |-> <<>>]

\* a call on a node: whether it raised ValueError, and the payment hash pay_invoice
\* returned
NodeCall(op, node, raised, val) == [op |-> op, node |-> node, raised |-> raised, val |-> val]

NodeInit ==
    /\ nodes = [n \in NodeIds |-> MockLightningNode(n)]
    /\ node_last = NodeCall("init", None, FALSE, 0)
    /\ node_paid = <<>>

\* create_invoice(amount_sats, description): the invoice and the node after the call
create_invoice(node, amount_sats, token) ==
    LET invoice_id == <<amount_sats, token>>
    IN  [node EXCEPT !.invoices =
            DictSet(@, invoice_id, [amount_sats |-> amount_sats, payment_hash |-> token,
                                    paid |-> FALSE])]

\* pay_invoice, lines 319-324: the node whose invoices hold the invoice, or None
invoice_holder(self, invoice, recipient_node) ==
    IF recipient_node # None /\ invoice \in DOMAIN nodes[recipient_node].invoices
    THEN recipient_node
    ELSE IF invoice \in DOMAIN nodes[self].invoices THEN self
    ELSE None

\* pay_invoice, lines 326-330 without the paid test
pay_invoice_raises_unless_paid(self, invoice, recipient_node) ==
    LET holder == invoice_holder(self, invoice, recipient_node)
    IN  \/ holder = None
        \/ nodes[self].balance_sats < nodes[holder].invoices[invoice].amount_sats

\* pay_invoice, lines 319-330: the call raises ValueError
pay_invoice_raises(self, invoice, recipient_node) ==
    LET holder == invoice_holder(self, invoice, recipient_node)
    IN  \/ holder = None
        \/ nodes[holder].invoices[invoice].paid
        \/ nodes[self].balance_sats < nodes[holder].invoices[invoice].amount_sats

\* pay_invoice, lines 332-354: the nodes after a payment that does not raise
pay_invoice_effect(self, invoice, recipient_node, preimage) ==
    LET holder == invoice_holder(self, invoice, recipient_node)
        invoice_data == nodes[holder].invoices[invoice]
        credited == recipient_node # None /\ recipient_node # self
        payment_record == [invoice |-> invoice, amount_sats |-> invoice_data.amount_sats,
                           preimage |-> preimage]
        balance(n) ==
            nodes[n].balance_sats
                - (IF n = self THEN invoice_data.amount_sats ELSE 0)
                + (IF credited /\ n = recipient_node THEN invoice_data.amount_sats ELSE 0)
    IN  [n \in NodeIds |->
            [nodes[n] EXCEPT
                !.balance_sats = balance(n),
                !.invoices = IF n = holder
                             THEN [@ EXCEPT ![invoice] = [@ EXCEPT !.paid = TRUE]]
                             ELSE @,
                !.payments = IF n = self \/ (credited /\ n = recipient_node)
                             THEN DictSet(@, invoice_data.payment_hash, payment_record)
                             ELSE @]]

CreateInvoice(n, amount_sats) ==
    /\ Cardinality(invoices_made) < MaxInvoices
    /\ nodes' = [nodes EXCEPT ![n] = create_invoice(@, amount_sats, FreshToken)]
    /\ node_last' = NodeCall("create_invoice", n, FALSE, 0)
    /\ UNCHANGED node_paid

PayInvoice(self, invoice, recipient_node) ==
    IF pay_invoice_raises(self, invoice, recipient_node)
    THEN /\ node_last' = NodeCall("pay_invoice", self, TRUE, 0)
         /\ UNCHANGED <<nodes, node_paid>>
    ELSE /\ nodes' = pay_invoice_effect(self, invoice, recipient_node, None)
         /\ node_paid' = Append(node_paid, invoice)
         /\ node_last' = NodeCall("pay_invoice", self, FALSE,
                                  nodes[invoice_holder(self, invoice, recipient_node)]
                                      .invoices[invoice].payment_hash)

NodeNext ==
    \/ (\E n \in NodeIds, amount_sats \in InvoiceAmounts : CreateInvoice(n, amount_sats))
            /\ UNCHANGED exceptNode
    \/ (\E self \in NodeIds, invoice \in invoices_made \cup {UnknownInvoice},
            recipient_node \in NodeIds \cup {None} : PayInvoice(self, invoice, recipient_node))
            /\ UNCHANGED exceptNode

(***************************************************************************)
(*                 PART VII - DOMPClient (domp/client.py)                  *)
(*                                                                         *)
(* A coroutine runs without interruption from one await to the next; what  *)
(* it does between two awaits is one action.  ws.send and asyncio.sleep    *)
(* are the awaits at which the relay listeners and other calls run.        *)
(***************************************************************************)
Relays == {"r1", "r2"}
ClientKey == 2
\* a listing and a bid on it that validate_event accepts, the listing with a
\* signature of another key, and a listing without an anti-spam proof
ClientListing == chain_event(300, <<>>, "previous", 1, 1, ClientKey)
ClientBid == chain_event(301, <<ClientListing>>, "previous", 1, 1, 1)
ClientForged == [ClientListing EXCEPT !.sig = sign_event(ClientListing.id, 1)]
ClientUnproven == Event_sign(Event(<<>>, 1700000000, 300, 1), ClientKey)
ClientUnsigned ==
    [Event(<<>>, 1700000000, 300, 1)
        EXCEPT !.tags = <<<<STR_ANTI_SPAM_PROOF, STR_LN, Repeat(98, IdHexChars)>>>>]
IncomingEvents == {ClientListing, ClientBid, ClientForged, ClientUnproven}

\* "temp_" and the subscription id f"temp_{int(time.time())}"
STR_TEMP == <<116, 101, 109, 112, 95>>
temp_subscription_id(time) == STR_TEMP \o Dec(time)
\* "domp_events", the standing subscription of the web state
StandingSubscription == <<100, 111, 109, 112, 95, 101, 118, 101, 110, 116, 115>>

\* the handlers: a collect_events closure of a get_events call, a handler that
\* records the event, and a handler that raises
Calls == {1, 2}
Handler(fn, call) == [fn |-> fn, call |-> call]
collect_events(call) == Handler("collect_events", call)
Recorder == Handler("record", 0)
Raiser == Handler("raise", 0)

IdleCall == [pc |-> "idle", subscription_id |-> <<>>, events |-> <<>>, result |-> None]
IdlePublish == [pc |-> "idle", event |-> None, index |-> 0, size |-> 0, success_count |-> 0,
                result |-> None]

ClientInit ==
    /\ connections = <<>>
    /\ sockets = [r \in Relays |-> "none"]
    /\ sent = {}
    /\ event_handlers = <<>>
    /\ subscriptions = <<>>
    /\ handled = [messages |-> 0, event |-> <<>>, handlers |-> <<>>]
    /\ calls = [c \in Calls |-> IdleCall]
    /\ publish = IdlePublish
    /\ client_time = 0

\* the dict connections: its keys in order, and whether it has a key
connection_keys == SelectSeq(connections, LAMBDA entry : ~entry.deleted)
connected(relay) == \E i \in DOMAIN connections :
                        connections[i].relay = relay /\ ~connections[i].deleted
\* ws.send(message) returns: the socket is open and takes the message
send_succeeds(relay) == sockets[relay] = "open"
\* ws.closed
ws_closed(relay) == sockets[relay] = "closed"

\* _connect_relay, one task per relay of connect(): self.connections[relay_url] = ws
ConnectRelay(relay) ==
    /\ sockets[relay] = "none"
    /\ sockets' = [sockets EXCEPT ![relay] = "open"]
    /\ connections' = Append(connections, [relay |-> relay, deleted |-> FALSE])
    /\ UNCHANGED <<sent, event_handlers, subscriptions, handled, calls, publish, client_time>>

\* the connection of a relay fails: sends raise, then ws.closed is True
SocketFails(relay) ==
    /\ sockets[relay] \in {"open", "failing"}
    /\ sockets' = [sockets EXCEPT ![relay] = IF @ = "open" THEN "failing" ELSE "closed"]
    /\ UNCHANGED <<connections, sent, event_handlers, subscriptions, handled, calls, publish,
                   client_time>>

\* _listen_relay, lines 71-77: recv raised, the finally clause deletes the connection
ListenRelayEnds(relay) ==
    /\ sockets[relay] \in {"failing", "closed"}
    /\ connected(relay)
    /\ connections' = [i \in DOMAIN connections |->
                          IF connections[i].relay = relay
                          THEN [connections[i] EXCEPT !.deleted = TRUE]
                          ELSE connections[i]]
    /\ UNCHANGED <<sockets, sent, event_handlers, subscriptions, handled, calls, publish,
                   client_time>>

\* the clock of the client moves to the next second
ClientTick ==
    /\ client_time < MaxClientTime
    /\ client_time' = client_time + 1
    /\ UNCHANGED <<connections, sockets, sent, event_handlers, subscriptions, handled, calls,
                   publish>>

\* add_event_handler(handler)
AddEventHandler(handler) ==
    /\ Len(event_handlers) < MaxHandlers
    /\ event_handlers' = Append(event_handlers, handler)
    /\ UNCHANGED <<connections, sockets, sent, subscriptions, handled, calls, publish,
                   client_time>>

\* list.remove(handler): the first equal element goes
list_remove(list, x) ==
    IF \E i \in DOMAIN list : list[i] = x
    THEN LET first == CHOOSE i \in DOMAIN list : list[i] = x /\ \A j \in 1..(i - 1) : list[j] # x
         IN  SubSeq(list, 1, first - 1) \o SubSeq(list, first + 1, Len(list))
    ELSE list

\* _handle_relay_message, line 91 with check_signature=False
message_validates_unsigned(event_data) == validate_event(event_data, FALSE)
\* _handle_relay_message, line 91: validate_event(event_data)
message_validates(event_data) == validate_event(event_data, TRUE)

\* the for loop of lines 95-99 stopping at the first handler that raises
handlers_called_until_raise(handlers) ==
    IF \E i \in DOMAIN handlers : handlers[i] = Raiser
    THEN SubSeq(handlers, 1, CHOOSE i \in DOMAIN handlers :
                                 handlers[i] = Raiser /\ \A j \in 1..(i - 1) : handlers[j] # Raiser)
    ELSE handlers
\* the for loop of lines 95-99: every handler is called, what one raises is caught
handlers_called(handlers) == handlers

\* collect_events(event) of one get_events call: events.append(event); the
\* subscription id of the message is kept beside the event as history
collected(call, handlers, event_data, subscription_id) ==
    LET times == Cardinality({i \in DOMAIN handlers : handlers[i] = collect_events(call)})
    IN  [i \in 1..times |-> [id |-> event_data.id, subscription_id |-> subscription_id]]

\* _handle_relay_message(relay_url, '["EVENT", subscription_id, event_data]')
HandleRelayMessage(subscription_id, event_data) ==
    /\ handled.messages < MaxMessages
    /\ LET handlers == IF message_validates(event_data)
                       THEN handlers_called(event_handlers)
                       ELSE <<>>
       IN  /\ handled' = [messages |-> handled.messages + 1, event |-> event_data.id,
                          handlers |-> handlers]
           /\ calls' = [c \in Calls |->
                          [calls[c] EXCEPT !.events =
                              @ \o collected(c, handlers, event_data, subscription_id)]]
    /\ UNCHANGED <<connections, sockets, sent, event_handlers, subscriptions, publish,
                   client_time>>

\* del d[k]
DictDel(d, k) == [x \in (DOMAIN d) \ {k} |-> d[x]]
relays_of(entries) == [i \in DOMAIN entries |-> entries[i].relay]

\* subscribe(subscription_id, filters), lines 170-183: the relays REQ is sent on
subscribe_sends(subscription_id) ==
    {relay \in Range(relays_of(connection_keys)) : ~ws_closed(relay) /\ send_succeeds(relay)}
subscribe(subscription_id) ==
    /\ sent' = sent \cup {<<relay, "REQ", subscription_id>> :
                              relay \in subscribe_sends(subscription_id)}
    /\ subscriptions' = IF subscribe_sends(subscription_id) # {}
                        THEN DictSet(subscriptions, subscription_id, relays_of(connection_keys))
                        ELSE subscriptions

\* the web state's standing subscription (web_api.py:493)
SubscribeStanding ==
    /\ StandingSubscription \notin DOMAIN subscriptions
    /\ subscribe(StandingSubscription)
    /\ UNCHANGED <<connections, sockets, event_handlers, handled, calls, publish, client_time>>

\* get_events, lines 224-235: up to the sleep
GetEventsStart(call) ==
    /\ calls[call].pc = "idle"
    /\ LET subscription_id == temp_subscription_id(client_time)
       IN  /\ calls' = [calls EXCEPT ![call] = [pc |-> "sleeping",
                                                subscription_id |-> subscription_id,
                                                events |-> <<>>, result |-> None]]
           /\ event_handlers' = Append(event_handlers, collect_events(call))
           /\ subscribe(subscription_id)
    /\ UNCHANGED <<connections, sockets, handled, publish, client_time>>

\* unsubscribe, lines 193-198: the relays CLOSE is handed to ws.send for
unsubscribe_sends(subscription_id) ==
    {relay \in Range(subscriptions[subscription_id]) : connected(relay) /\ ~ws_closed(relay)}

\* get_events, lines 237-240: the handler is removed and the events are returned
get_events_returns(call) ==
    /\ calls' = [calls EXCEPT ![call] = [@ EXCEPT !.pc = "done", !.result = calls[call].events]]
    /\ event_handlers' = list_remove(event_handlers, collect_events(call))

\* get_events, line 236: the sleep is over and unsubscribe runs to its first
\* await ws.send, or to its end when it sends nothing
GetEventsWake(call) ==
    /\ calls[call].pc = "sleeping"
    /\ LET subscription_id == calls[call].subscription_id
       IN  IF subscription_id \notin DOMAIN subscriptions
           THEN get_events_returns(call) /\ UNCHANGED <<sent, subscriptions>>
           ELSE IF unsubscribe_sends(subscription_id) = {}
           THEN /\ get_events_returns(call)
                /\ subscriptions' = DictDel(subscriptions, subscription_id)
                /\ UNCHANGED sent
           ELSE /\ calls' = [calls EXCEPT ![call] = [@ EXCEPT !.pc = "unsubscribing"]]
                /\ sent' = sent \cup {<<relay, "CLOSE", subscription_id>> :
                                          relay \in {r \in unsubscribe_sends(subscription_id) :
                                                         send_succeeds(r)}}
                /\ UNCHANGED <<subscriptions, event_handlers>>
    /\ UNCHANGED <<connections, sockets, handled, publish, client_time>>

\* unsubscribe, line 200, after the sends: del self.subscriptions[subscription_id]
\* raises KeyError when another call deleted the id meanwhile; the finally clause
\* of get_events removes the handler in both cases
GetEventsUnsubscribed(call) ==
    /\ calls[call].pc = "unsubscribing"
    /\ LET subscription_id == calls[call].subscription_id
       IN  IF subscription_id \in DOMAIN subscriptions
           THEN /\ get_events_returns(call)
                /\ subscriptions' = DictDel(subscriptions, subscription_id)
           ELSE /\ calls' = [calls EXCEPT ![call] = [@ EXCEPT !.pc = "raised"]]
                /\ event_handlers' = list_remove(event_handlers, collect_events(call))
                /\ UNCHANGED subscriptions
    /\ UNCHANGED <<connections, sockets, sent, handled, publish, client_time>>

\* relay messages reach the registered handlers; an EVENT message carries the
\* id of a subscription the client holds
MessagesNext ==
    \/ (\E relay \in Relays : ConnectRelay(relay)) /\ UNCHANGED exceptClient
    \/ (\E handler \in {Recorder, Raiser} : AddEventHandler(handler)) /\ UNCHANGED exceptClient
    \/ SubscribeStanding /\ UNCHANGED exceptClient
    \/ (\E subscription_id \in DOMAIN subscriptions, event_data \in IncomingEvents :
            HandleRelayMessage(subscription_id, event_data)) /\ UNCHANGED exceptClient

\* get_events calls run beside the standing subscription
GetEventsNext ==
    \/ ConnectRelay("r1") /\ UNCHANGED exceptClient
    \/ ClientTick /\ UNCHANGED exceptClient
    \/ SubscribeStanding /\ UNCHANGED exceptClient
    \/ (\E call \in Calls : GetEventsStart(call)) /\ UNCHANGED exceptClient
    \/ (\E call \in Calls : GetEventsWake(call)) /\ UNCHANGED exceptClient
    \/ (\E call \in Calls : GetEventsUnsubscribed(call)) /\ UNCHANGED exceptClient
    \/ (\E subscription_id \in DOMAIN subscriptions, event_data \in {ClientListing, ClientBid} :
            HandleRelayMessage(subscription_id, event_data)) /\ UNCHANGED exceptClient

\* publish_event, the for loop of lines 148-154 from one next() of the dict
\* iterator to the next await ws.send: the iterator raises RuntimeError when the
\* dict changed size, a closed socket is passed over without an await
RECURSIVE publish_loop(_)
publish_loop(p) ==
    IF Len(connection_keys) # p.size THEN [p EXCEPT !.pc = "raised"]
    ELSE LET later == {i \in DOMAIN connections : i > p.index /\ ~connections[i].deleted}
         IN  IF later = {}
             THEN [p EXCEPT !.pc = "done",
                            !.result = IF p.success_count > 0 THEN "True" ELSE "False"]
             ELSE LET i == CHOOSE i \in later : \A j \in later : i <= j
                      relay == connections[i].relay
                  IN  IF ws_closed(relay) THEN publish_loop([p EXCEPT !.index = i])
                      ELSE [p EXCEPT !.pc = "awaiting", !.index = i,
                                     !.success_count = @ + IF send_succeeds(relay) THEN 1 ELSE 0]

\* the message an iteration of the loop hands to a socket that takes it
publish_sends(p) ==
    IF p.pc = "awaiting" /\ send_succeeds(connections[p.index].relay)
    THEN {<<connections[p.index].relay, "EVENT", p.event.id>>}
    ELSE {}

\* publish_event, lines 135-136: an event without id or sig is signed
publish_signed(ev) == IF ev.id = <<>> \/ ev.sig = <<>> THEN Event_sign(ev, ClientKey) ELSE ev

\* publish_event without the validation of lines 139-143
publish_validates_anything(event_data) == TRUE
\* publish_event, lines 139-143: validate_event(event.to_dict())
publish_validates(event_data) == validate_event(event_data, TRUE)

\* publish_event(event), up to the first await or to its return
PublishStart(ev) ==
    /\ publish.pc = "idle"
    /\ LET signed == publish_signed(ev)
           started == [IdlePublish EXCEPT !.event = signed, !.size = Len(connection_keys)]
           p == IF publish_validates(signed)
                THEN publish_loop(started)
                ELSE [started EXCEPT !.pc = "done", !.result = "False"]
       IN  /\ publish' = p
           /\ sent' = sent \cup publish_sends(p)
    /\ UNCHANGED <<connections, sockets, event_handlers, subscriptions, handled, calls,
                   client_time>>

\* publish_event resumes after an await ws.send
PublishResume ==
    /\ publish.pc = "awaiting"
    /\ LET p == publish_loop(publish)
       IN  /\ publish' = p
           /\ sent' = sent \cup publish_sends(p)
    /\ UNCHANGED <<connections, sockets, event_handlers, subscriptions, handled, calls,
                   client_time>>

PublishEvents == {ClientListing, ClientForged, ClientUnproven, ClientUnsigned}
PublishNext ==
    \/ (\E relay \in Relays : ConnectRelay(relay)) /\ UNCHANGED exceptClient
    \/ (\E relay \in Relays : SocketFails(relay)) /\ UNCHANGED exceptClient
    \/ (\E relay \in Relays : ListenRelayEnds(relay)) /\ UNCHANGED exceptClient
    \/ (\E ev \in PublishEvents : PublishStart(ev)) /\ UNCHANGED exceptClient
    \/ PublishResume /\ UNCHANGED exceptClient

(***************************************************************************)
(*             PART VIII - TransactionManager (domp/client.py)             *)
(***************************************************************************)
\* the events of one purchase, each referring to the one before it, and a
\* payment that refers to the bid with a receipt that refers to that payment
TmListing == chain_event(300, <<>>, "previous", 1, 1, 2)
TmBid == chain_event(301, <<TmListing>>, "previous", 1, 1, 1)
TmAcceptance == chain_event(303, <<TmListing, TmBid>>, "previous", 1, 1, 2)
TmPayment == chain_event(311, <<TmListing, TmBid, TmAcceptance>>, "previous", 1, 1, 1)
TmReceipt ==
    chain_event(313, <<TmListing, TmBid, TmAcceptance, TmPayment>>, "previous", 1, 1, 1)
TmEarlyPayment == chain_event(311, <<TmListing, TmBid>>, "previous", 1, 1, 1)
TmEarlyReceipt == chain_event(313, <<TmListing, TmBid, TmEarlyPayment>>, "previous", 1, 1, 1)
ManagerEvents ==
    {TmListing, TmBid, TmAcceptance, TmPayment, TmReceipt, TmEarlyPayment, TmEarlyReceipt}

\* None where an id or a pubkey is expected: like '', it is the id of no event
NoId == <<>>

ManagerInit ==
    /\ transactions = <<>>
    /\ transaction_order = <<>>
    /\ deliveries = 0

\* the loops of _find_transaction_by_bid, _by_acceptance and _by_payment: the key
\* of the first transaction, in dict order, that holds an event of that id and kind
find_transaction(txs, order, id, kind) ==
    LET holds(i) == \E j \in DOMAIN txs[order[i]].events :
                        /\ txs[order[i]].events[j].id = id
                        /\ txs[order[i]].events[j].kind = kind
        found == {i \in DOMAIN order : holds(i)}
    IN  IF found = {} THEN NoId
        ELSE order[CHOOSE i \in found : \A j \in found : i <= j]
find_transaction_by_bid(txs, order, bid_id) == find_transaction(txs, order, bid_id, 301)
find_transaction_by_acceptance_among_bids(txs, order, acceptance_id) ==
    find_transaction(txs, order, acceptance_id, 301)
find_transaction_by_acceptance(txs, order, acceptance_id) ==
    find_transaction(txs, order, acceptance_id, 303)
find_transaction_by_payment(txs, order, payment_id) ==
    find_transaction(txs, order, payment_id, 311)

\* tx["state"] = state; tx["events"].append(event)
tx_record(txs, product_id, state, ev) ==
    IF product_id = NoId THEN txs
    ELSE [txs EXCEPT ![product_id] = [@ EXCEPT !.state = state, !.events = Append(@, ev)]]

\* _handle_transaction_event(event): the transactions after the call
handle_transaction_event(txs, order, ev) ==
    LET content == json_loads(ev.content)
    IN  CASE ev.kind = 300 ->
                DictSet(txs, ev.id, [product_id |-> ev.id, state |-> "LISTED",
                                     events |-> <<ev>>, seller_pubkey |-> ev.pubkey,
                                     buyer_pubkey |-> NoId])
          [] ev.kind = 301 ->
                LET product_id == DictGet(content, "product_ref", NoId)
                IN  IF product_id \in DOMAIN txs
                    THEN [tx_record(txs, product_id, "BID_RECEIVED", ev)
                             EXCEPT ![product_id].buyer_pubkey = ev.pubkey]
                    ELSE txs
          [] ev.kind = 303 ->
                tx_record(txs, find_transaction_by_bid(txs, order,
                                   DictGet(content, "bid_ref", NoId)), "BID_ACCEPTED", ev)
          [] ev.kind = 311 ->
                tx_record(txs, find_transaction_by_acceptance(txs, order,
                                   DictGet(content, "bid_ref", NoId)), "PAYMENT_CONFIRMED", ev)
          [] ev.kind = 313 ->
                tx_record(txs, find_transaction_by_payment(txs, order,
                                   DictGet(content, "payment_ref", NoId)), "COMPLETED", ev)
          [] OTHER -> txs

\* the client hands a validated event to TransactionManager._handle_transaction_event
HandleTransactionEvent(ev) ==
    /\ deliveries < MaxDeliveries
    /\ deliveries' = deliveries + 1
    /\ transactions' = handle_transaction_event(transactions, transaction_order, ev)
    /\ transaction_order' = IF ev.kind = 300
                            THEN OrderSet(transaction_order, transactions, ev.id)
                            ELSE transaction_order

\* get_transaction_state(product_id)
get_transaction_state(product_id) ==
    IF product_id \in DOMAIN transactions THEN transactions[product_id].state ELSE None

ManagerNext ==
    (\E ev \in ManagerEvents : HandleTransactionEvent(ev)) /\ UNCHANGED exceptManager

(***************************************************************************)
(*                  PART IX - DOMPWebState (web_api.py)                    *)
(*                                                                         *)
(* handle_nostr_event is the handler the web state registers on its        *)
(* DOMPClient; it is synchronous and runs whole for each validated event.  *)
(***************************************************************************)
\* the events the relays deliver: the purchase of the seller's own listing, a
\* payment that refers to the bid, and a listing of somebody else
WebOtherListing == chain_event(300, <<>>, "previous", 1, 1, 1)
WebEvents == {TmListing, WebOtherListing, TmBid, TmAcceptance, TmPayment, TmEarlyPayment,
              TmEarlyReceipt}
WebEventIds == {ev.id : ev \in WebEvents}

\* "tx_"
STR_TX == <<116, 120, 95>>
\* f"tx_{bid_id[:8]}"
web_transaction_id(bid_id) == STR_TX \o SubSeq(bid_id, 1, 8)

WebInit ==
    /\ processed_events = {}
    /\ web_listings = {}
    /\ web_bids = <<>>
    /\ web_transactions = <<>>
    /\ web_transaction_order = <<>>
    /\ delivered = [id \in WebEventIds |-> 0]
    /\ dispatched = [id \in WebEventIds |-> 0]
    /\ web_last = [event |-> NoId, transaction_id |-> NoId]

\* accept_bid, as far as the web state's transactions go: the escrow manager makes
\* the escrow and the endpoint stores it with the bid under the escrow's id
AcceptBid(bid_event) ==
    LET bid_content == json_loads(bid_event.content)
        listing_id == DictGet(bid_content, "product_ref", NoId)
        transaction_id == web_transaction_id(bid_event.id)
    IN  /\ bid_event.kind = 301
        /\ listing_id = TmListing.id
        /\ TmListing.pubkey = public_key_hex(ClientKey)
        /\ \E amount \in PurchaseAmounts :
               create_escrow(transaction_id, amount,
                             DictGet(bid_content, "buyer_collateral_satoshis", 0),
                             DictGet(json_loads(TmListing.content),
                                     "seller_collateral_satoshis", 0), 144)
        /\ web_transactions' = DictSet(web_transactions, transaction_id,
                                   [status |-> "awaiting_payment",
                                    escrow |-> escrows'[transaction_id],
                                    bid |-> [event |-> bid_event]])
        /\ web_transaction_order' =
               OrderSet(web_transaction_order, web_transactions, transaction_id)
        /\ UNCHANGED <<processed_events, web_listings, web_bids, delivered, dispatched,
                       web_last>>

\* hasattr(obj, name) for an object of a dataclass without methods of its own
has_attribute(obj, name) == name \in DOMAIN obj

\* if event_id in self.processed_events: return
already_processed_never(event_id) == FALSE
already_processed(event_id) == event_id \in processed_events

\* the loop of process_payment_confirmation_event: the first transaction, in dict
\* order, whose bid is the event of that id
web_find_transaction(txs, order, bid_ref) ==
    LET found == {i \in DOMAIN order : txs[order[i]].bid.event.id = bid_ref}
    IN  IF found = {} THEN NoId
        ELSE order[CHOOSE i \in found : \A j \in found : i <= j]

\* process_payment_confirmation_event(event_dict): the transactions after the call.
\* escrow.fund_escrow is looked up on the HTLCEscrow object before anything is
\* changed; the AttributeError of a missing method is caught by the except clause.
process_payment_confirmation_event(txs, order, event_dict) ==
    LET bid_ref == DictGet(json_loads(event_dict.content), "bid_ref", NoId)
        transaction_id == web_find_transaction(txs, order, bid_ref)
    IN  IF bid_ref = NoId \/ transaction_id = NoId THEN txs
        ELSE IF ~has_attribute(txs[transaction_id].escrow, "fund_escrow") THEN txs
        ELSE [txs EXCEPT ![transaction_id].status = "payment_confirmed"]

\* process_receipt_event(event_dict): the transactions after the call
process_receipt_event(txs, order, event_dict) ==
    LET payment_ref == DictGet(json_loads(event_dict.content), "payment_ref", NoId)
        found == {i \in DOMAIN order :
                     /\ has_attribute(txs[order[i]].escrow, "transaction_id")
                     /\ txs[order[i]].escrow.transaction_id = payment_ref}
    IN  IF found = {} THEN txs
        ELSE [txs EXCEPT ![order[CHOOSE i \in found : \A j \in found : i <= j]].status =
                             "completed"]

\* process_listing_event(event_dict): the listings after the call
process_listing_event(event_dict) ==
    IF event_dict.pubkey = public_key_hex(ClientKey) THEN web_listings
    ELSE web_listings \cup {event_dict.id}

\* process_bid_event(event_dict): the bids after the call
process_bid_event(event_dict) == DictSet(web_bids, event_dict.id, "pending")

\* process_bid_acceptance_event(event_dict): the bids after the call
process_bid_acceptance_event(event_dict) ==
    LET bid_ref == DictGet(json_loads(event_dict.content), "bid_ref", NoId)
    IN  IF bid_ref \in DOMAIN web_bids THEN [web_bids EXCEPT ![bid_ref] = "accepted"]
        ELSE web_bids

\* the kinds handle_nostr_event has a processor for
ProcessedKinds == {300, 301, 303, 311, 313, 321}

\* handle_nostr_event(event)
handle_nostr_event(ev) ==
    /\ delivered' = [delivered EXCEPT ![ev.id] = @ + 1]
    /\ IF already_processed(ev.id)
       THEN UNCHANGED <<processed_events, web_listings, web_bids, web_transactions,
                        dispatched, web_last>>
       ELSE /\ processed_events' = processed_events \cup {ev.id}
            /\ dispatched' = IF ev.kind \in ProcessedKinds
                             THEN [dispatched EXCEPT ![ev.id] = @ + 1]
                             ELSE dispatched
            /\ web_listings' = IF ev.kind = 300 THEN process_listing_event(ev)
                               ELSE web_listings
            /\ web_bids' = CASE ev.kind = 301 -> process_bid_event(ev)
                             [] ev.kind = 303 -> process_bid_acceptance_event(ev)
                             [] OTHER -> web_bids
            /\ web_transactions' =
                   CASE ev.kind = 311 ->
                            process_payment_confirmation_event(
                                web_transactions, web_transaction_order, ev)
                     [] ev.kind = 313 ->
                            process_receipt_event(
                                web_transactions, web_transaction_order, ev)
                     [] OTHER -> web_transactions
            /\ web_last' =
                   IF ev.kind = 311
                   THEN [event |-> ev.id,
                         transaction_id |->
                             web_find_transaction(
                                 web_transactions, web_transaction_order,
                                 DictGet(json_loads(ev.content), "bid_ref", NoId))]
                   ELSE web_last
    /\ UNCHANGED web_transaction_order

\* a relay delivers an event to the client, which hands it to the web state
HandleNostrEvent(ev) ==
    /\ delivered[ev.id] < MaxRedeliveries
    /\ handle_nostr_event(ev)

WebNext ==
    \/ AcceptBid(TmBid) /\ UNCHANGED exceptWebAndEscrow
    \/ (\E ev \in WebEvents : HandleNostrEvent(ev)) /\ UNCHANGED exceptWeb

vars == <<coreVars, appVars>>

Init == EscrowInit /\ EventIdle /\ ChainInit /\ PowInit /\ RepInit /\ NodeInit /\ ClientInit /\ ManagerInit /\ WebInit
Next == EscrowNext
Spec == Init /\ [][Next]_vars
FundingSpec == Init /\ [][FundingNext]_vars
ValidationInit == EscrowInit /\ EventInit /\ ChainInit /\ PowInit /\ RepInit /\ NodeInit /\ ClientInit /\ ManagerInit /\ WebInit
ValidationSpec == ValidationInit /\ [][ValidationNext]_vars
ContentInit == EscrowInit /\ ContentEventInit /\ ChainInit /\ PowInit /\ RepInit /\ NodeInit /\ ClientInit /\ ManagerInit /\ WebInit
ContentSpec == ContentInit /\ [][ValidationNext]_vars
ChainKindsSpec == Init /\ [][ChainKindsNext]_vars
ChainRefsSpec == Init /\ [][ChainRefsNext]_vars
ChainBidsSpec == Init /\ [][ChainBidsNext]_vars
MiningSpec == Init /\ [][MiningNext]_vars
ChainReputationSpec == Init /\ [][ChainReputationNext]_vars
RepValidationSpec == Init /\ [][RepValidationNext]_vars
RepCountsSpec == Init /\ [][RepCountsNext]_vars
RepScoresSpec == Init /\ [][RepScoresNext]_vars
RepReviewersSpec == Init /\ [][RepReviewersNext]_vars
NodeSpec == Init /\ [][NodeNext]_vars
MessagesSpec == Init /\ [][MessagesNext]_vars
GetEventsSpec == Init /\ [][GetEventsNext]_vars
PublishSpec == Init /\ [][PublishNext]_vars
ManagerSpec == Init /\ [][ManagerNext]_vars
WebSpec == Init /\ [][WebNext]_vars

(***************************************************************************)
(*                     CLAIMS ABOUT THE ESCROW MANAGER                     *)
(***************************************************************************)
TerminalStates == {COMPLETED, REFUNDED, EXPIRED}
TransitionOps == {"fund_escrow", "release_payment", "refund_payment", "check_timeouts"}

\* C1: once an escrow is Completed, Refunded or Expired, no fund_escrow,
\* release_payment, refund_payment or check_timeouts call changes its state.
C1_TerminalStatesAbsorbing ==
    [][\A t \in DOMAIN escrows :
          (escrows[t].state \in TerminalStates /\ last'.op \in TransitionOps)
              => escrows'[t].state = escrows[t].state]_vars

\* C2: after one successful release_payment on an escrow, every later
\* release_payment on the same transaction_id returns None.
C2_ReleaseAtMostOnce ==
    [][\A t \in released :
          (last'.op = "release_payment" /\ last'.tx = t) => last'.val = {}]_vars

\* the condition C3 states on the arguments of a fund_escrow call
C3_Required(escrow, args) ==
    /\ args[1] \notin {None, ""}
    /\ (escrow.buyer_collateral_sats > 0 => args[2] \notin {None, ""})
    /\ (escrow.seller_collateral_sats > 0 => args[3] \notin {None, ""})

\* C3: on a Pending escrow fund_escrow returns True and moves it to Active iff
\* buyer_payment_hash is non-empty and each collateral that is > 0 comes with a
\* non-empty hash; otherwise it returns False and the escrow stays Pending.
C3_FundActivatesIffRequiredHashes ==
    [][\A t \in DOMAIN escrows :
          (last'.op = "fund_escrow" /\ last'.tx = t /\ escrows[t].state = PENDING)
              => /\ last'.val = {C3_Required(escrows[t], last'.args)}
                 /\ escrows'[t].state =
                        IF C3_Required(escrows[t], last'.args) THEN ACTIVE ELSE PENDING]_vars

\* a fund_escrow call has activated an escrow that asks for both collaterals
C3_Witness ==
    /\ last.op = "fund_escrow"
    /\ last.val = {TRUE}
    /\ last.tx \in DOMAIN escrows
    /\ escrows[last.tx].buyer_collateral_sats > 0
    /\ escrows[last.tx].seller_collateral_sats > 0
    /\ escrows[last.tx].state = ACTIVE

\* C4: release_payment returns the preimage and sets Completed exactly when the
\* escrow exists and is Active; otherwise it returns None and changes nothing.
C4_ReleaseOnlyFromActive ==
    [][\A t \in TxIds :
          (last'.op = "release_payment" /\ last'.tx = t)
              => IF t \in DOMAIN escrows /\ escrows[t].state = ACTIVE
                 THEN /\ last'.val = {escrows[t].payment_preimage}
                      /\ escrows' = [escrows EXCEPT ![t].state = COMPLETED]
                 ELSE /\ last'.val = {}
                      /\ escrows' = escrows]_vars

\* a release has just succeeded on one escrow while another one is Pending
C4_Witness ==
    /\ last.op = "release_payment"
    /\ last.val # {}
    /\ escrows[last.tx].state = COMPLETED
    /\ \E t \in DOMAIN escrows : escrows[t].state = PENDING

\* C5: a create_escrow for a transaction_id that already has an escrow does not
\* replace it: its state, payment_hash and preimage are retained.
C5_CreateOncePerTransaction ==
    [][\A t \in DOMAIN escrows :
          (last'.op = "create_escrow" /\ last'.tx = t)
              => /\ escrows'[t].state = escrows[t].state
                 /\ escrows'[t].payment_hash = escrows[t].payment_hash
                 /\ escrows'[t].payment_preimage = escrows[t].payment_preimage]_vars

\* the escrows C6 says a sweep at time `time` expires
C6_Due(time) == {t \in DOMAIN escrows :
                    escrows[t].state = ACTIVE /\ escrows[t].expires_at < time}

\* C6: check_timeouts at time now moves to Expired exactly the Active escrows
\* with expires_at < now, returns exactly their ids, and leaves the rest unchanged.
C6_SweepExpiresExactlyTheDue ==
    [][last'.op = "check_timeouts"
          => /\ escrows' = [t \in DOMAIN escrows |->
                               IF t \in C6_Due(now)
                               THEN [escrows[t] EXCEPT !.state = EXPIRED]
                               ELSE escrows[t]]
             /\ Range(last'.val) = C6_Due(now)
             /\ Len(last'.val) = Cardinality(C6_Due(now))]_vars

\* a sweep has expired one escrow and left alone a Pending one past its expiry
\* and an Active one whose expiry is exactly now
C6_Witness ==
    /\ last.op = "check_timeouts"
    /\ Len(last.val) = 1
    /\ escrows[last.val[1]].state = EXPIRED
    /\ \E t \in DOMAIN escrows :
          \/ escrows[t].state = PENDING /\ escrows[t].expires_at < now
          \/ escrows[t].state = ACTIVE /\ escrows[t].expires_at = now

\* C7: a new escrow starts Pending with the secret just generated, every
\* escrow's payment_hash is SHA-256 of its payment_preimage, and a successful
\* release_payment returns the preimage generated when the escrow was created.
C7_HashCommitsToGeneratedPreimage ==
    /\ \A t \in DOMAIN escrows :
          /\ escrows[t].payment_hash = SHA256(escrows[t].payment_preimage)
          /\ escrows[t].payment_preimage = generated[t]
    /\ last.op = "create_escrow"
          => /\ escrows[last.tx].state = PENDING
             /\ last.val = {escrows[last.tx]}
    /\ (last.op = "release_payment" /\ last.val # {})
          => last.val = {generated[last.tx]}

\* a release has returned a preimage of an escrow created over an earlier one
C7_Witness ==
    /\ last.op = "release_payment"
    /\ last.val # {}
    /\ Cardinality(DOMAIN preimages) > Cardinality(DOMAIN escrows)

\* whether the value a call returned carries the preimage p
Discloses(call, p) ==
    CASE call.op \in {"create_escrow", "get_escrow", "get_escrow_summary"} ->
            \E e \in call.val : "payment_preimage" \in DOMAIN e /\ e.payment_preimage = p
      [] call.op = "release_payment" -> p \in call.val
      [] OTHER -> FALSE

\* C8: before a successful release_payment on an escrow, no value returned by
\* the manager discloses that escrow's payment preimage.
C8_PreimageHiddenUntilRelease ==
    \A t \in DOMAIN escrows :
        t \notin released => ~Discloses(last, escrows[t].payment_preimage)
\* the value each operation returns for a transaction_id it does not know
C18_Refusal(op) ==
    CASE op = "fund_escrow" -> {FALSE}
      [] op = "release_payment" -> {}
      [] op = "refund_payment" -> {FALSE}
      [] op = "get_escrow_summary" -> {}

\* C18: fund_escrow, release_payment, refund_payment and get_escrow_summary on
\* a transaction_id without an escrow return False, None, False and None and
\* leave the manager's escrows as they were.
C18_UnknownTransactionRefused ==
    [][(/\ last'.op \in {"fund_escrow", "release_payment", "refund_payment",
                         "get_escrow_summary"}
        /\ last'.tx \notin DOMAIN escrows)
          => /\ last'.val = C18_Refusal(last'.op)
             /\ escrows' = escrows
             /\ escrow_order' = escrow_order
             /\ preimages' = preimages]_vars

\* a refund of an unknown transaction was refused while another escrow exists
C18_Witness ==
    /\ last.op = "refund_payment"
    /\ last.tx \notin DOMAIN escrows
    /\ last.val = {FALSE}
    /\ escrows # <<>>

\* C19: a fund_escrow call that returns False leaves the escrow record exactly
\* as it was: neither its state nor any recorded payment hash changes.
C19_FailedFundingHasNoEffect ==
    [][(last'.op = "fund_escrow" /\ last'.val = {FALSE}) => escrows' = escrows]_vars

ImmutableFields ==
    {"transaction_id", "buyer_pubkey", "seller_pubkey", "purchase_amount_sats",
     "buyer_collateral_sats", "seller_collateral_sats", "payment_hash",
     "payment_preimage", "timeout_blocks", "created_at", "expires_at"}

\* C20: fund_escrow, release_payment, refund_payment and check_timeouts change
\* no escrow's identity, parties, amounts, payment_hash, payment_preimage,
\* timeout_blocks, created_at or expires_at; fund, release and refund leave
\* every escrow but the addressed one unchanged; and expires_at = created_at +
\* timeout_blocks * 600 in every reachable state.
C20_EscrowFrame ==
    /\ [](\A t \in DOMAIN escrows :
            escrows[t].expires_at = escrows[t].created_at + escrows[t].timeout_blocks * 600)
    /\ [][last'.op \in TransitionOps =>
            /\ DOMAIN escrows' = DOMAIN escrows
            /\ \A t \in DOMAIN escrows :
                  /\ \A f \in ImmutableFields : escrows'[t][f] = escrows[t][f]
                  /\ (last'.op # "check_timeouts" /\ last'.tx # t)
                        => escrows'[t] = escrows[t]]_vars

\* a funded escrow with a timeout of one block was released beside a second,
\* still pending escrow
C20_Witness ==
    \E t, u \in DOMAIN escrows :
        /\ t # u
        /\ last.op = "release_payment" /\ last.tx = t
        /\ escrows[t].state = COMPLETED
        /\ escrows[t].timeout_blocks = 1
        /\ escrows[t].buyer_payment_hash = "hp"
        /\ escrows[u].state = PENDING

\* C29: release_payment on an Active escrow succeeds whatever the clock says:
\* past expires_at it still returns the preimage and sets Completed, as long
\* as no check_timeouts has marked the escrow Expired.
C29_ReleaseIgnoresClock ==
    [][\A t \in DOMAIN escrows :
          (/\ last'.op = "release_payment"
           /\ last'.tx = t
           /\ escrows[t].state = ACTIVE
           /\ now > escrows[t].expires_at)
              => /\ last'.val = {escrows[t].payment_preimage}
                 /\ escrows'[t].state = COMPLETED]_vars

\* an escrow was released after its expires_at had passed
C29_Witness ==
    /\ last.op = "release_payment"
    /\ last.tx \in DOMAIN escrows
    /\ last.val = {escrows[last.tx].payment_preimage}
    /\ escrows[last.tx].state = COMPLETED
    /\ now > escrows[last.tx].expires_at

C30_MissingArgument(escrow, args) ==
    \/ escrow.buyer_collateral_sats > 0 /\ ~Truthy(args[2])
    \/ escrow.seller_collateral_sats > 0 /\ ~Truthy(args[3])
    \/ ~Truthy(args[1])

\* C30: fund_escrow decides from the arguments of the current call only: a
\* call that leaves out the hash of a collateral that is > 0 (or the payment
\* hash) returns False and does not activate the escrow, whatever hashes
\* earlier calls have recorded on it.
C30_FundingDecidedByCurrentArguments ==
    [][\A t \in DOMAIN escrows :
          (/\ last'.op = "fund_escrow"
           /\ last'.tx = t
           /\ C30_MissingArgument(escrows[t], last'.args))
              => /\ last'.val = {FALSE}
                 /\ escrows'[t].state = escrows[t].state]_vars

\* every required hash has been recorded by one call or another, the last call
\* left one out and was refused, and the escrow is still Pending
C30_Witness ==
    /\ last.op = "fund_escrow"
    /\ last.val = {FALSE}
    /\ last.tx \in DOMAIN escrows
    /\ escrows[last.tx].state = PENDING
    /\ escrows[last.tx].buyer_collateral_sats > 0
    /\ escrows[last.tx].seller_collateral_sats > 0
    /\ escrows[last.tx].buyer_payment_hash = "hp"
    /\ escrows[last.tx].buyer_collateral_hash = "hb"
    /\ escrows[last.tx].seller_collateral_hash = "hs"
    /\ ~Truthy(last.args[2])

C32_ResultFromOwnSubscription ==
    \A call \in Calls :
        calls[call].pc = "done" =>
            \A i \in DOMAIN calls[call].result :
                calls[call].result[i].subscription_id = calls[call].subscription_id

\* C36: once publish_event is over, it has returned True exactly if the event
\* was sent on at least one relay connection.
C36_TrueIffSent ==
    publish.pc \in {"done", "raised"} =>
        (publish.result = "True" <=> \E relay \in Relays : <<relay, "EVENT", publish.event.id>> \in sent)

\* C36, the parts that hold: an event validate_event rejects is sent to no relay
\* and publish_event returns False; a publish_event that returns gives True
\* exactly if the event was sent on at least one relay connection.
C36_InvalidEventSentNowhere ==
    (publish.pc # "idle" /\ ~validate_event(publish.event, TRUE)) =>
        /\ publish.pc = "done" /\ publish.result = "False"
        /\ sent = {}
C36_ReturnsTrueIffSent ==
    publish.pc = "done" =>
        (publish.result = "True" <=> \E relay \in Relays : <<relay, "EVENT", publish.event.id>> \in sent)

(***************************************************************************)
(*                  CLAIMS ABOUT THE TRANSACTION MANAGER                   *)
(***************************************************************************)
\* cli.py, lines 291-297: the order of the states
TransactionStates == <<"LISTED", "BID_RECEIVED", "BID_ACCEPTED", "PAYMENT_CONFIRMED", "COMPLETED">>
StateRank(state) == CHOOSE i \in DOMAIN TransactionStates : TransactionStates[i] = state

\* C33: no incoming event moves the state of a tracked product backwards in
\* the order LISTED, BID_RECEIVED, BID_ACCEPTED, PAYMENT_CONFIRMED, COMPLETED.
C33_StateOnlyMovesForward ==
    [][\A product_id \in DOMAIN transactions :
          product_id \in DOMAIN transactions' =>
              StateRank(transactions'[product_id].state)
                  >= StateRank(transactions[product_id].state)]_vars

\* C33, what holds instead: the state is the one of the last recorded event
C33_StateOfLastRecordedEvent ==
    \A product_id \in DOMAIN transactions :
        LET tx == transactions[product_id]
            kind == tx.events[Len(tx.events)].kind
        IN  tx.state = CASE kind = 300 -> "LISTED"
                         [] kind = 301 -> "BID_RECEIVED"
                         [] kind = 303 -> "BID_ACCEPTED"
                         [] kind = 311 -> "PAYMENT_CONFIRMED"
                         [] kind = 313 -> "COMPLETED"

\* the events of a transaction hold, in this order, the listing, a bid on it, an
\* acceptance of that bid, a payment for that acceptance and a receipt of that
\* payment
C34_Ref(ev, field) == DictGet(json_loads(ev.content), field, NoId)
C34_Chain(product_id, events) ==
    \E b, a, p, r \in DOMAIN events :
        /\ 1 < b /\ b < a /\ a < p /\ p < r
        /\ events[1].kind = 300 /\ events[1].id = product_id
        /\ events[b].kind = 301 /\ C34_Ref(events[b], "product_ref") = events[1].id
        /\ events[a].kind = 303 /\ C34_Ref(events[a], "bid_ref") = events[b].id
        /\ events[p].kind = 311 /\ C34_Ref(events[p], "bid_ref") = events[a].id
        /\ events[r].kind = 313 /\ C34_Ref(events[r], "payment_ref") = events[p].id
\* the event refers to a predecessor no transaction has recorded
C34_Orphan(ev) ==
    LET recorded(kind) ==
            UNION {{e.id : e \in {x \in Range(transactions[t].events) : x.kind = kind}} :
                      t \in DOMAIN transactions}
    IN  CASE ev.kind = 301 -> C34_Ref(ev, "product_ref") \notin recorded(300)
          [] ev.kind = 303 -> C34_Ref(ev, "bid_ref") \notin recorded(301)
          [] ev.kind = 311 -> C34_Ref(ev, "bid_ref") \notin recorded(303)
          [] ev.kind = 313 -> C34_Ref(ev, "payment_ref") \notin recorded(311)
          [] OTHER -> FALSE

\* C34: a transaction reported COMPLETED has recorded, in this order, the
\* listing, a bid whose product_ref is the listing id, an acceptance whose
\* bid_ref is that bid's id, a payment whose bid_ref is that acceptance's id and
\* a receipt whose payment_ref is that payment's id; an event whose referenced
\* predecessor was never recorded changes no transaction.
C34_CompletedHasWholeChain ==
    [][/\ \A product_id \in DOMAIN transactions' :
             transactions'[product_id].state = "COMPLETED" =>
                 C34_Chain(product_id, transactions'[product_id].events)
       /\ \A ev \in ManagerEvents :
             (HandleTransactionEvent(ev) /\ C34_Orphan(ev)) => transactions' = transactions]_vars

\* a completed transaction, reached although a payment that refers to the bid
\* was delivered too
C34_Witness ==
    /\ get_transaction_state(TmListing.id) = "COMPLETED"
    /\ Len(transactions[TmListing.id].events) = 5
    /\ deliveries = 6

(***************************************************************************)
(*                   CLAIMS ABOUT THE LIGHTNING NODE                       *)
(***************************************************************************)
\* C39: no balance_sats of a MockLightningNode is ever negative.
C39_BalancesNeverNegative == \A n \in NodeIds : nodes[n].balance_sats >= 0

\* C39, the parts that hold: pay_invoice raises for an unknown invoice, a paid
\* invoice and a payer balance below the amount; a call that raises changes no
\* balance, invoice or payment record; no invoice is paid twice.
C39_RaisesLeavingNodesUnchanged ==
    [][\A self \in NodeIds, invoice \in invoices_made \cup {UnknownInvoice},
         recipient_node \in NodeIds \cup {None} :
          PayInvoice(self, invoice, recipient_node) =>
              LET holders == {n \in {self, recipient_node} \ {None} :
                                 invoice \in DOMAIN nodes[n].invoices}
                  refused == \/ holders = {}
                             \/ \E n \in holders : nodes[n].invoices[invoice].paid
                             \/ \E n \in holders :
                                    nodes[self].balance_sats
                                        < nodes[n].invoices[invoice].amount_sats
              IN  /\ refused => node_last'.raised
                  /\ node_last'.raised => UNCHANGED <<nodes, node_paid>>]_vars
C39_NoInvoicePaidTwice ==
    \A i, j \in DOMAIN node_paid : node_paid[i] = node_paid[j] => i = j

(***************************************************************************)
(*                      CLAIMS ABOUT THE WEB STATE                         *)
(***************************************************************************)
\* C35: the web state processes each event id at most once: however often the
\* relays deliver an event, handle_nostr_event calls the processor of its kind
\* with it at most one time.
C35_EachIdDispatchedAtMostOnce ==
    \A id \in WebEventIds :
        /\ dispatched[id] <= 1
        /\ dispatched[id] = 1 <=> id \in processed_events
        /\ delivered[id] > 0 => id \in processed_events

\* a payment confirmation that two relays delivered, processed once
C35_Witness ==
    /\ delivered[TmEarlyPayment.id] = 2
    /\ dispatched[TmEarlyPayment.id] = 1
    /\ delivered[TmBid.id] = 2
    /\ dispatched[TmBid.id] = 1

\* C37: when a payment confirmation (kind 311) arrives whose bid_ref is the bid
\* of a tracked transaction that has an escrow, the web state funds that escrow
\* and sets the transaction's status to "payment_confirmed".
\* Violated: the escrow stored with the transaction is an HTLCEscrow, which has
\* no fund_escrow method, so the call raises and the status is left as it was.
C37_MatchingPaymentConfirmsTransaction ==
    web_last.transaction_id # NoId =>
        web_transactions[web_last.transaction_id].status = "payment_confirmed"

\* what holds instead: no payment confirmation changes a tracked transaction
C37_PaymentLeavesTransactionAwaiting ==
    \A t \in DOMAIN web_transactions :
        /\ web_transactions[t].status = "awaiting_payment"
        /\ web_transactions[t].escrow.state = PENDING
        /\ web_transactions[t].escrow.buyer_payment_hash = None

\* a payment confirmation for the bid of a tracked transaction has been processed
C37_MatchingPaymentProcessed ==
    /\ web_last.event = TmEarlyPayment.id
    /\ web_last.transaction_id = web_transaction_id(TmBid.id)

(***************************************************************************)
(*                  CLAIMS ABOUT THE REPUTATION SYSTEM                     *)
(***************************************************************************)
\* C21: when validate_event_chain accepts a chain, aggregate_marketplace_reputation
\* of the same events returns an aggregate for the listing's seller whose
\* total_transactions counts the chain's receipt.
C21_ValidChainFeedsReputation ==
    (/\ chain_result = "accepted"
     /\ rep_last.op = "aggregate_marketplace_reputation"
     /\ rep_last.arg = chain)
        => /\ rep_last.val.raised = None
           /\ chain[1].pubkey \in DOMAIN rep_last.val.aggregated
           /\ rep_last.val.aggregated[chain[1].pubkey].total_transactions >= 1

\* a receipt is counted for the seller exactly when its payment_ref is the id
\* of the listing
C21_CountedIffReceiptRefersToListing ==
    (/\ rep_last.op = "aggregate_marketplace_reputation"
     /\ Len(rep_last.arg) = Len(expected_sequence))
        => LET events == rep_last.arg
           IN  (events[1].pubkey \in DOMAIN rep_last.val.aggregated)
                   <=> (json_loads(events[5].content).payment_ref = events[1].id)

C22_OutOfRange(score) ==
    \/ score.overall_rating < 1 \/ score.overall_rating > 5
    \/ \E field \in {"item_quality", "shipping_speed", "communication", "payment_reliability"} :
           \E r \in score[field] : r < 1 \/ r > 5
    \/ score.transaction_amount_sats < 0

\* C22: add_reputation_score raises ValueError for a score whose overall
\* rating or any present optional rating is outside 1..5 or whose amount is
\* negative, and then changes no history and no aggregate; any other score is
\* appended to the history of its reviewed pubkey and to no other history.
C22_RejectedScoreHasNoEffect ==
    [][rep_last'.op = "add_reputation_score" =>
          LET score == rep_last'.arg
              pubkey == score.reviewed_pubkey
          IN  IF C22_OutOfRange(score)
              THEN /\ rep_last'.val = "ValueError"
                   /\ reputation_scores' = reputation_scores
                   /\ aggregated_reputation' = aggregated_reputation
              ELSE /\ rep_last'.val # "ValueError"
                   /\ reputation_scores' =
                          DictSet(reputation_scores, pubkey,
                                  Append(HistoryOf(reputation_scores, pubkey), score))]_vars

\* a score with a good overall rating and a communication rating of 0 was
\* rejected for a pubkey that has a history
C22_Witness ==
    /\ rep_last.op = "add_reputation_score"
    /\ rep_last.val = "ValueError"
    /\ rep_last.arg.overall_rating = 5
    /\ rep_last.arg.communication = {0}
    /\ HistoryOf(reputation_scores, rep_last.arg.reviewed_pubkey) # <<>>

C23_Verified(score) == score.verified_purchase
C23_Completed(score) == score.escrow_completed
\* C23: every pubkey with a score in its history has a stored aggregate derived
\* from the full history: total_transactions is the number of scores,
\* total_volume_sats the sum of their amounts, verified_purchases,
\* completed_escrows and unique_reviewers the matching counts, each at most
\* total_transactions.
C23_AggregateCoversHistory ==
    \A pubkey \in DOMAIN reputation_scores :
        LET scores == reputation_scores[pubkey]
        IN  scores # <<>> =>
                /\ pubkey \in DOMAIN aggregated_reputation
                /\ LET rep == aggregated_reputation[pubkey]
                   IN  /\ rep.total_transactions = Len(scores)
                       /\ rep.total_volume_sats =
                              SumOver([i \in DOMAIN scores |->
                                          scores[i].transaction_amount_sats], Len(scores))
                       /\ rep.verified_purchases = Count(scores, C23_Verified)
                       /\ rep.completed_escrows = Count(scores, C23_Completed)
                       /\ rep.unique_reviewers =
                              Cardinality({scores[i].reviewer_pubkey : i \in DOMAIN scores})
                       /\ rep.verified_purchases <= rep.total_transactions
                       /\ rep.completed_escrows <= rep.total_transactions
                       /\ rep.unique_reviewers <= rep.total_transactions

\* adding a score for one pubkey changes no other pubkey's aggregate
C23_OtherAggregatesUnchanged ==
    [][rep_last'.op = "add_reputation_score" =>
          \A pubkey \in DOMAIN aggregated_reputation :
              pubkey # rep_last'.arg.reviewed_pubkey
                  => /\ pubkey \in DOMAIN aggregated_reputation'
                     /\ aggregated_reputation'[pubkey] = aggregated_reputation[pubkey]]_vars

\* C24: get_trust_score returns a value in [0, 1], and 0 for a pubkey that
\* has no reputation.
C24_TrustScoreInUnitInterval ==
    rep_last.op = "get_trust_score" =>
        /\ rep_last.val.num >= 0
        /\ rep_last.val.num <= rep_last.val.den
        /\ rep_last.arg \notin DOMAIN aggregated_reputation => rep_last.val = RatInt(0)

\* a trust score of 1 was returned for a pubkey whose factors add up to more
\* than 1
C24_Witness ==
    /\ rep_last.op = "get_trust_score"
    /\ rep_last.val = RatInt(1)
    /\ rep_last.arg \in DOMAIN aggregated_reputation
    /\ RatLess(RatInt(1), trust_score_uncapped(aggregated_reputation[rep_last.arg]))

C25_Ratings(pubkey) ==
    {reputation_scores[pubkey][i].overall_rating : i \in DOMAIN reputation_scores[pubkey]}
\* C25: overall_score lies between the smallest and the largest rating of the
\* history it was computed from; when all ratings are equal to r (a single
\* score in particular) it equals r whatever the weights.
C25_OverallScoreIsWeightedAverage ==
    \A pubkey \in DOMAIN aggregated_reputation :
        LET rep == aggregated_reputation[pubkey]
            ratings == C25_Ratings(pubkey)
        IN  rep.total_transactions = Len(reputation_scores[pubkey]) =>
                /\ ~RatLess(rep.overall_score, RatInt(MinOf(ratings)))
                /\ ~RatLess(RatInt(MaxOf(ratings)), rep.overall_score)
                /\ \A r \in ratings : ratings = {r} => rep.overall_score = RatInt(r)

C28_Counts(pubkey) ==
    LET scores == reputation_scores[pubkey]
    IN  [r \in {scores[i].reviewer_pubkey : i \in DOMAIN scores} |->
            Cardinality({i \in DOMAIN scores : scores[i].reviewer_pubkey = r})]
\* C28: review_concentration is 0 for an empty history, for a single reviewer
\* and whenever all reviewers have the same number of reviews; for n distinct
\* reviewers it lies in [0, 1 - 1/n].
C28_GiniRange ==
    /\ calculate_gini_coefficient(<<>>) = RatInt(0)
    /\ \A pubkey \in DOMAIN aggregated_reputation :
          LET gini == aggregated_reputation[pubkey].review_concentration
              counts == C28_Counts(pubkey)
              n == Cardinality(DOMAIN counts)
          IN  /\ gini.num >= 0
              /\ ~RatLess(Rat(n - 1, n), gini)
              /\ (\A r, q \in DOMAIN counts : counts[r] = counts[q]) => gini = RatInt(0)

\* three reviewers have reviewed one pubkey, one of them twice, and the
\* concentration is above 0
C28_Witness ==
    /\ "s1" \in DOMAIN aggregated_reputation
    /\ aggregated_reputation["s1"].unique_reviewers = 3
    /\ aggregated_reputation["s1"].total_transactions = 4
    /\ aggregated_reputation["s1"].review_concentration.num > 0

(***************************************************************************)
(*                     CLAIMS ABOUT EVENT VALIDATION                       *)
(***************************************************************************)
\* C9: every event validate_event accepts with signature checking has an id
\* equal to compute_event_id of its published fields (pubkey, created_at, kind,
\* all tags, content) and a sig that verifies against that id under its pubkey.
C9_AcceptedIdIsComputedAndSigned ==
    (Accepted /\ validation.check_signature)
        => /\ event.id = compute_event_id(event)
           /\ schnorr_verify([x |-> event.pubkey, odd |-> FALSE], event.id, event.sig)

RecognisedProofTypes == {STR_POW, STR_LN, STR_REF}

\* C10: validate_event accepts an event only if its tags hold exactly one
\* anti-spam proof tag of a recognised type (pow, ln or ref).
C10_AcceptedHasExactlyOneProofTag ==
    Accepted
        => /\ Cardinality(ProofTagIndexes(event.tags)) = 1
           /\ \A i \in ProofTagIndexes(event.tags) : event.tags[i][2] \in RecognisedProofTypes

C27_Content == json_loads(event.content)
\* the contents the claim names, for an event whose content parses and holds
\* the fields of its kind
C27_Named ==
    CASE event.kind = 300 -> C27_Content.price_satoshis <= 0
      [] event.kind = 301 -> \/ C27_Content.bid_amount_satoshis <= 0
                             \/ C27_Content.buyer_collateral_satoshis < 0
      [] event.kind = 311 ->
             C27_Content.payment_method \notin {"lightning_htlc", "lightning_keysend", "onchain"}
      [] event.kind = 313 -> /\ C27_Content.status # "received"
                             /\ "dispute_reason" \notin DOMAIN C27_Content
      [] OTHER -> FALSE

\* C27: once validate_event has run its content stage on a listing with
\* price_satoshis <= 0, a bid with bid_amount_satoshis <= 0 or
\* buyer_collateral_satoshis < 0, a payment whose payment_method is not
\* lightning_htlc, lightning_keysend or onchain, or a receipt whose status is
\* not "received" and that has no dispute_reason, the event is rejected by
\* that stage.
C27_ContentStageRejects ==
    (/\ \E i \in DOMAIN validation.evaluated : validation.evaluated[i] = "content"
     /\ C27_Named)
        => validation.failed = "content"

\* a receipt that reports damage and gives no dispute_reason was rejected by
\* the content stage
C27_Witness ==
    /\ validation.pc = "done"
    /\ validation.failed = "content"
    /\ event.kind = 313
    /\ C27_Content.status = "damaged"
    /\ "dispute_reason" \notin DOMAIN C27_Content

\* C11: validate_event runs structure, schema, content, anti-spam, signature in
\* that order and stops at the first failing stage: the stages evaluated are a
\* prefix of the requested ones, every stage before the last evaluated one
\* passes, the reported failure is the last evaluated stage and it fails, and
\* the event is accepted iff every requested stage passes.
C11_StagesInOrderStopAtFirstFailure ==
    LET requested == RequestedStages(validation.check_signature)
        done == validation.evaluated
    IN  /\ validation.pc # "idle" =>
              /\ Len(done) <= Len(requested)
              /\ done = SubSeq(requested, 1, Len(done))
              /\ \A i \in 1..(Len(done) - 1) : stage_passes(done[i], event)
        /\ validation.pc = "done" =>
              /\ validation.failed # None =>
                    /\ done # <<>> /\ validation.failed = done[Len(done)]
                    /\ ~stage_passes(validation.failed, event)
              /\ validation.failed = None => done = requested
              /\ Accepted <=> \A i \in DOMAIN requested : stage_passes(requested[i], event)

\* a call that stopped at the content stage on an event whose anti-spam stage
\* would fail too
C11_Witness ==
    /\ validation.pc = "done"
    /\ validation.failed = "content"
    /\ ~validate_anti_spam(event)
    /\ validation.evaluated = <<"structure", "schema", "content">>

(***************************************************************************)
(*                     CLAIMS ABOUT CHAIN VALIDATION                       *)
(***************************************************************************)
ChainKinds == [i \in DOMAIN chain |-> chain[i].kind]

\* C12: validate_event_chain accepts a list only if its kinds are exactly
\* 300, 301, 303, 311, 313: empty, shorter, longer and reordered lists are
\* rejected.
C12_AcceptedChainHasExpectedKinds ==
    chain_result = "accepted" => ChainKinds = <<300, 301, 303, 311, 313>>

\* a chain of valid events that lacks only the terminal kind was rejected
C12_Witness ==
    /\ chain_result = "rejected"
    /\ ChainKinds = <<300, 301, 303, 311>>
    /\ \A i \in DOMAIN chain : validate_event(chain[i], TRUE)

\* the reference field C13 names for a kind
C26_Price == json_loads(chain[1].content).price_satoshis
C26_Bid == json_loads(chain[2].content).bid_amount_satoshis

\* C26: validate_event_chain rejects every chain whose bid_amount_satoshis is
\* greater than 1.1 times the listing's price_satoshis.
C26_OverBidRejected ==
    (/\ chain_result # "idle"
     /\ Len(chain) >= 2
     /\ chain[1].kind = 300
     /\ chain[2].kind = 301
     /\ C26_Bid * 10 > C26_Price * 11)
        => chain_result = "rejected"

\* validate_event_chain does not reject a complete chain of the expected kinds
\* and references whose bid is at most 1.1 times the price
C26_WithinTenPercentAccepted ==
    (/\ chain_result # "idle"
     /\ Len(chain) = Len(expected_sequence)
     /\ C26_Bid * 10 <= C26_Price * 11)
        => chain_result = "accepted"

C13_ReferenceField(kind) ==
    CASE kind = 301 -> "product_ref"
      [] kind = 303 -> "bid_ref"
      [] kind = 311 -> "bid_ref"
      [] kind = 313 -> "payment_ref"
C13_Mismatches ==
    {i \in 2..Len(chain) :
        json_loads(chain[i].content)[C13_ReferenceField(chain[i].kind)] # chain[i - 1].id}

\* C13: in every accepted chain each later event's reference field equals the
\* id of the event just before it; one mismatching reference rejects the chain.
C13_AcceptedChainReferencesPredecessors ==
    chain_result = "accepted" => C13_Mismatches = {}

\* a chain of the five kinds, valid events and a listed-price bid, rejected
\* for a single wrong reference
C13_Witness ==
    /\ chain_result = "rejected"
    /\ ChainKinds = expected_sequence
    /\ \A i \in DOMAIN chain : validate_event(chain[i], TRUE)
    /\ validate_state_transitions(chain)
    /\ Cardinality(C13_Mismatches) = 1

(***************************************************************************)
(*                        CLAIMS ABOUT SIGNING                             *)
(***************************************************************************)
\* C14: for every key pair and every well-formed event, Event.sign (sign_event
\* over the event's id) followed by verify_event succeeds under the key's
\* public_key_hex.
C14_SignThenVerify ==
    [][\A key \in Keys :
          (EventSign(key) /\ sign_event_defined(sign_identity(event, key).id))
              => (verify_event(event') /\ event'.pubkey = public_key_hex(key))]_vars

\* an event signed by the key whose public point has an odd y verifies
C14_Witness ==
    /\ event.sig = sign_event(event.id, 1)
    /\ event.pubkey = public_key_hex(1)
    /\ public_key_odd(1)
    /\ verify_event(event)

Zeros(n) == [i \in 1..n |-> 48]

\* C15: when mining returns (id, nonce) for a difficulty d that is a multiple
\* of 4, id is compute_event_id of the event with [anti_spam_proof, pow, nonce,
\* d] appended, id starts with d/4 '0' characters, the resulting event passes
\* the PoW proof check, and an id lacking that prefix fails it.
C15_MinedIdMeetsDifficulty ==
    (pow.pc = "returned" /\ pow.difficulty % 4 = 0) =>
        LET nonce == pow.tried[Len(pow.tried)]
            tagged == [pow.event_data EXCEPT
                          !.tags = Append(@, <<STR_ANTI_SPAM_PROOF, STR_POW,
                                               Dec(nonce), Dec(pow.difficulty)>>)]
        IN  /\ pow.event_id = compute_event_id(tagged)
            /\ pow.event_copy = tagged
            /\ StartsWith(pow.event_id, Zeros(pow.difficulty \div 4))
            /\ \A c \in pow.checked :
                  c.passes <=> StartsWith(c.id, Zeros(pow.difficulty \div 4))

\* mining returned for a difficulty above 0, the mined event passed the check
\* and an id without the prefix failed it
C15_Witness ==
    /\ pow.pc = "returned"
    /\ pow.difficulty \in {4, 8}
    /\ [id |-> pow.event_id, passes |-> TRUE] \in pow.checked
    /\ \E c \in pow.checked : c.id # pow.event_id /\ ~c.passes

\* the number of '0' characters an id begins with
LeadingZeros(id) == Cardinality({n \in 1..Len(id) : \A i \in 1..n : id[i] = 48})
\* the tag _validate_anti_spam hands to the PoW check
C16_FirstProofTag ==
    event.tags[CHOOSE i \in ProofTagIndexes(event.tags) :
                  \A j \in ProofTagIndexes(event.tags) : i <= j]
C16_PowChecked ==
    /\ \E i \in DOMAIN validation.evaluated : validation.evaluated[i] = "anti_spam"
    /\ ProofTagIndexes(event.tags) # {}
    /\ C16_FirstProofTag[2] = STR_POW

\* C16: the PoW check accepts a pow tag iff the tag carries a nonce and an
\* integer difficulty and the stored id begins with floor(difficulty/4) '0'
\* characters; nothing else (the nonce, a recomputed hash) plays a part.
C16_PowCheckIsPrefixOfStoredId ==
    C16_PowChecked =>
        LET tag == C16_FirstProofTag
        IN  (validation.failed # "anti_spam")
                <=> /\ Len(tag) >= 4
                    /\ IsIntText(tag[4])
                    /\ LeadingZeros(event.id) >= IntOf(tag[4]) \div 4

\* difficulty 11 asks for floor(11/4) = 2 zeros: an id with exactly two passes
C16_Witness ==
    /\ C16_PowChecked
    /\ validation.failed # "anti_spam"
    /\ C16_FirstProofTag[4] = Dec(11)
    /\ LeadingZeros(event.id) = 2
    /\ event.id # compute_event_id(event)

\* the id the loop computes for a nonce meets the target
C17_Meets(nonce) ==
    StartsWith(compute_event_id([pow.event_data EXCEPT
                   !.tags = Append(@, <<STR_ANTI_SPAM_PROOF, STR_POW,
                                        Dec(nonce), Dec(pow.difficulty)>>)]),
               Zeros(IF pow.difficulty \div 4 > 0 THEN pow.difficulty \div 4 ELSE 0))

\* C17: mining tries the nonces 0, 1, 2, ... in increasing order, returns the
\* first nonce whose id meets the target, and otherwise fails after at most
\* the limit's number of attempts (10,000,000 in the code, PowNonceLimit here).
C17_MiningFirstNonceWithinLimit ==
    /\ pow.tried = [i \in 1..Len(pow.tried) |-> i - 1]
    /\ \A i \in 1..(Len(pow.tried) - 1) : ~C17_Meets(pow.tried[i])
    /\ pow.pc = "returned" => C17_Meets(pow.tried[Len(pow.tried)])
    /\ Len(pow.tried) <= PowNonceLimit
====
